---- MODULE Spec2Model ----
(***************************************************************************)
(* Vector sync pipeline of the obsidian-mcp-macros plugin                  *)
(* (class VectorSyncManager and its callers in MCPPlugin).                 *)
(*                                                                         *)
(* Strings that the code inspects character by character (paths, glob      *)
(* patterns, bodies) are sequences of one-character strings.               *)
(***************************************************************************)
EXTENDS Integers, Sequences, FiniteSets, TLC

\* ------------------------------------------------------------------ bounds

\* vault events, full syncs and searches in one behaviour
MaxOps == 2
\* asynchronous indexFile / removeFromIndex calls in flight at once
MaxTasks == 3
\* longest document body, in characters
MaxLen == 1
\* settings.chunkSize / settings.overlapSize the vault is indexed with
CfgChunkSize == 2
CfgOverlapSize == 1
\* read, embedding and store calls that fail in one behaviour
MaxFailures == 1
\* longest rule list the rule engine is called with directly
MaxRules == 2
\* longest body and largest chunk size the chunker is called with directly
MaxBody == 7
MaxChunk == 4
\* largest number typed into a size field of the settings tab
MaxSize == 3

\* ------------------------------------------------------- program constants

\* limit of the filtered search that collects the points to delete
DeleteSearchLimit == 1000

\* DEFAULT_SETTINGS.vectorSync.dimension, also the settings tab's fallback
DefaultDimension == 1536

\* DEFAULT_SETTINGS.vectorSync.chunkSize and overlapSize, also the settings
\* tab's fallbacks
DefaultChunkSize == 1000
DefaultOverlapSize == 200

\* ------------------------------------------------------------------- state

VARIABLES
    settings,       \* plugin.settings.vectorSync
    qdrantClient,   \* TRUE when VectorSyncManager.qdrantClient is set
    vault,          \* the host's files: path -> document
    collection,     \* "absent" or "present": the Qdrant collection
    store,          \* the points of the collection
    syncQueue,      \* VectorSyncManager.syncQueue
    status,         \* the status last handed to updateStatusBar
    tasks,          \* the indexFile / removeFromIndex calls in flight
    sync,           \* the syncEntireVault call, if one runs
    search,         \* the vectorSearch / searchSimilar call and what it returned
    raised,         \* TRUE once an event listener has thrown to the host
    nOps,           \* vault events, syncs and searches so far
    nFailures,      \* read, embedding and store calls that have failed so far
    lastEv,         \* history: the last vault event of every path
    clean,          \* history: the complete undisturbed indexFile runs of a path
    collectionDim,  \* vector size of the Qdrant collection, 0 while absent
    clear,          \* the clearAllVectors call, if one runs, and how it ended
    probe,          \* the last direct call of a pure function and its result
    sessions,       \* MCPPlugin.sessions: session id -> lastActivity
    clock,          \* Date.now(), in milliseconds since the plugin was loaded
    requests,       \* the handleMCPRequest calls so far, in order of arrival
    listeners,      \* how many times setupEventListeners has registered its listeners
    serverEnabled,  \* plugin.settings.enabled: the Enable MCP Server setting
    httpServer,     \* MCPPlugin.httpServer: 0 for null, or the number of a server
    servers,        \* the http servers created so far: "listening", "closed", "failed"
    calls,          \* the async calls of the plugin (restart, toggles, reloads)
    loadedTools,    \* the keys of MCPPlugin.loadedTools
    toolFiles       \* how many .js files the tools folder holds

vars == <<settings, qdrantClient, vault, collection, collectionDim, store, syncQueue, status,
          tasks, sync, search, raised, nOps, nFailures, lastEv, clean,
          collectionDim, clear, probe, sessions, clock, requests, listeners,
          serverEnabled, httpServer, servers, calls, loadedTools, toolFiles>>

\* the state of the HTTP server and of the tool registry
server == <<serverEnabled, httpServer, servers, calls, loadedTools, toolFiles>>

\* the state of the /mcp endpoint
endpoint == <<sessions, clock, requests, server>>

\* --------------------------------------------------------------- strings

RECURSIVE ReplaceAll(_, _, _)
\* String.prototype.replace with a global regex of a literal: every
\* non-overlapping occurrence of `from`, left to right
ReplaceAll(s, from, to) ==
    IF Len(s) < Len(from) THEN s
    ELSE IF SubSeq(s, 1, Len(from)) = from
         THEN to \o ReplaceAll(SubSeq(s, Len(from) + 1, Len(s)), from, to)
         ELSE <<Head(s)>> \o ReplaceAll(Tail(s), from, to)

RECURSIVE ReplaceFirst(_, _, _)
\* String.prototype.replace with a string pattern: the first occurrence only
ReplaceFirst(s, from, to) ==
    IF Len(s) < Len(from) THEN s
    ELSE IF SubSeq(s, 1, Len(from)) = from
         THEN to \o SubSeq(s, Len(from) + 1, Len(s))
         ELSE <<Head(s)>> \o ReplaceFirst(Tail(s), from, to)

StartsWith(s, prefix) ==
    /\ Len(prefix) <= Len(s)
    /\ SubSeq(s, 1, Len(prefix)) = prefix

\* position of the last occurrence of character c in s, 0 when absent
LastIndexOf(s, c) ==
    LET hits == {k \in 1..Len(s) : s[k] = c}
    IN  IF hits = {} THEN 0 ELSE CHOOSE k \in hits : \A m \in hits : m <= k

\* TFile.name: the part of the path after the last "/"
FileName(path) == SubSeq(path, LastIndexOf(path, "/") + 1, Len(path))

\* TFile.extension: the part of the name after its last ".", "" without one
Extension(path) ==
    LET name == FileName(path)
        dot  == LastIndexOf(name, ".")
    IN  IF dot = 0 THEN <<>> ELSE SubSeq(name, dot + 1, Len(name))

\* TFile.basename: the name without its extension
BaseName(path) ==
    LET name == FileName(path)
        dot  == LastIndexOf(name, ".")
    IN  IF dot = 0 THEN name ELSE SubSeq(name, 1, dot - 1)

\* ------------------------------------------------------------ rule engine

\* The regular expression source matchesPattern builds from a glob.  The
\* second replace also rewrites the "*" of the ".*" the first one wrote.
GlobToRegex(pattern) ==
    ReplaceAll(ReplaceAll(ReplaceAll(pattern, <<"*", "*">>, <<".", "*">>),
                          <<"*">>, <<"[", "^", "/", "]", "*">>),
               <<"?">>, <<".">>)

\* position of the first "]" of r at or after position from, 0 when absent
ClassEnd(r, from) ==
    LET hits == {k \in from..Len(r) : r[k] = "]"}
    IN  IF hits = {} THEN 0 ELSE CHOOSE k \in hits : \A m \in hits : k <= m

RECURSIVE ParseRegex(_)
\* new RegExp(source) for the sources GlobToRegex can write from patterns
\* over letters, digits, "_", "/", ".", "*", "?", "[" and "]": a sequence of
\* items (an atom, starred or not), or a SyntaxError.
ParseRegex(r) ==
    IF r = <<>> THEN [ok |-> TRUE, items |-> <<>>]
    ELSE IF Head(r) = "*"
    THEN \* a quantifier with nothing to repeat
         [ok |-> FALSE, items |-> <<>>]
    ELSE
      LET close == IF Head(r) = "[" THEN ClassEnd(r, 2) ELSE 0
          atomLen == IF Head(r) = "[" THEN close ELSE 1
          inner == IF Head(r) = "[" /\ close > 0 THEN SubSeq(r, 2, close - 1) ELSE <<>>
          neg == inner # <<>> /\ Head(inner) = "^"
          members == IF neg THEN Tail(inner) ELSE inner
          atom == IF Head(r) = "[" THEN [kind |-> "class", neg |-> neg,
                                          set |-> {members[k] : k \in 1..Len(members)}]
                  ELSE IF Head(r) = "." THEN [kind |-> "any", neg |-> FALSE, set |-> {}]
                  ELSE [kind |-> "lit", neg |-> FALSE, set |-> {Head(r)}]
          starred == atomLen < Len(r) /\ atomLen > 0 /\ r[atomLen + 1] = "*"
          used == IF starred THEN atomLen + 1 ELSE atomLen
          rest == ParseRegex(SubSeq(r, used + 1, Len(r)))
      IN  IF Head(r) = "[" /\ close = 0
          THEN \* unterminated character class
               [ok |-> FALSE, items |-> <<>>]
          ELSE IF ~rest.ok THEN rest
          ELSE [ok |-> TRUE,
                items |-> <<[atom |-> atom, star |-> starred]>> \o rest.items]

AtomMatches(atom, c) ==
    CASE atom.kind = "any" -> TRUE
      [] atom.kind = "lit" -> c \in atom.set
      [] atom.kind = "class" -> IF atom.neg THEN c \notin atom.set ELSE c \in atom.set

RECURSIVE MatchItems(_, _)
\* RegExp.test of "^" items "$" against the whole string s
MatchItems(items, s) ==
    IF items = <<>> THEN s = <<>>
    ELSE LET it == Head(items) IN
         IF it.star
         THEN \/ MatchItems(Tail(items), s)
              \/ /\ s # <<>>
                 /\ AtomMatches(it.atom, Head(s))
                 /\ MatchItems(items, Tail(s))
         ELSE /\ s # <<>>
              /\ AtomMatches(it.atom, Head(s))
              /\ MatchItems(Tail(items), Tail(s))

\* matchesPattern: "throw" when new RegExp raises, else the test's result
matchesPattern(filePath, pattern) ==
    LET re == ParseRegex(GlobToRegex(pattern))
    IN  IF ~re.ok THEN "throw"
        ELSE IF MatchItems(re.items, filePath) THEN "true" ELSE "false"

\* evaluateRule comparing the extension with the pattern as it was typed
evaluateRuleNoStrip(path, rule) ==
    CASE rule.type = "extension" ->
            IF Extension(path) = rule.pattern THEN "true" ELSE "false"
      [] rule.type = "folder" ->
            IF StartsWith(path, rule.pattern) THEN "true" ELSE "false"
      [] rule.type = "file" ->
            IF path = rule.pattern THEN "true" ELSE "false"
      [] rule.type = "pattern" -> matchesPattern(path, rule.pattern)
      [] OTHER -> "false"

evaluateRule(path, rule) ==
    CASE rule.type = "extension" ->
            IF Extension(path) = ReplaceFirst(rule.pattern, <<".">>, <<>>)
            THEN "true" ELSE "false"
      [] rule.type = "folder" ->
            IF StartsWith(path, rule.pattern) THEN "true" ELSE "false"
      [] rule.type = "file" ->
            IF path = rule.pattern THEN "true" ELSE "false"
      [] rule.type = "pattern" -> matchesPattern(path, rule.pattern)
      [] OTHER -> "false"

RECURSIVE SomeExcluded(_, _)
\* rule.exclude?.some(pattern => matchesPattern(path, pattern)): stops at the
\* first pattern that matches, raises at the first one that cannot compile
SomeExcluded(path, exclude) ==
    IF exclude = <<>> THEN "false"
    ELSE LET m == matchesPattern(path, Head(exclude))
         IN  IF m = "false" THEN SomeExcluded(path, Tail(exclude)) ELSE m

RECURSIVE RulesMatchStopAtExcluded(_, _)
\* the loop of matchesSyncRules returning false at the first excluded match
RulesMatchStopAtExcluded(path, rules) ==
    IF rules = <<>> THEN "false"
    ELSE LET rule == Head(rules) IN
         IF ~rule.enabled THEN RulesMatchStopAtExcluded(path, Tail(rules))
         ELSE LET m == evaluateRule(path, rule) IN
              IF m = "throw" THEN "throw"
              ELSE IF m = "false" THEN RulesMatchStopAtExcluded(path, Tail(rules))
              ELSE LET x == SomeExcluded(path, rule.exclude) IN
                   IF x = "throw" THEN "throw"
                   ELSE IF x = "true" THEN "false"
                   ELSE "true"

RECURSIVE RulesMatch(_, _)
RulesMatch(path, rules) ==
    IF rules = <<>> THEN "false"
    ELSE LET rule == Head(rules) IN
         IF ~rule.enabled THEN RulesMatch(path, Tail(rules))
         ELSE LET m == evaluateRule(path, rule) IN
              IF m = "throw" THEN "throw"
              ELSE IF m = "false" THEN RulesMatch(path, Tail(rules))
              ELSE LET x == SomeExcluded(path, rule.exclude) IN
                   IF x = "throw" THEN "throw"
                   ELSE IF x = "true" THEN RulesMatch(path, Tail(rules))
                   ELSE "true"

\* matchesSyncRules(file) under the given settings
matchesSyncRules(enabledFlag, rules, path) ==
    IF ~enabledFlag THEN "false" ELSE RulesMatch(path, rules)

\* ---------------------------------------------------------------- chunker

\* the object a front-matter block parses to: one key per "key: value" line,
\* a later line replacing an earlier one with the same key
RECURSIVE FrontMatter(_)
FrontMatter(lines) ==
    IF lines = <<>> THEN <<>>
    ELSE LET before == FrontMatter(SubSeq(lines, 1, Len(lines) - 1))
             last == lines[Len(lines)]
         IN  [k \in (DOMAIN before) \cup {last[1]} |->
                 IF k = last[1] THEN last[2] ELSE before[k]]

\* {...base, ...over}: object spread, the later object wins
Spread(base, over) ==
    [k \in (DOMAIN base) \cup (DOMAIN over) |->
        IF k \in DOMAIN over THEN over[k] ELSE base[k]]

\* a division that rounds down where Math.ceil rounds up
CeilDivDown(a, b) == a \div b

\* Math.ceil(a / b) and Math.floor(a / b) for a >= 0, b > 0
CeilDiv(a, b) == (a + b - 1) \div b
FloorDiv(a, b) == a \div b

\* a slice that takes the character at `to` as well
SliceInclusive(s, from, to) ==
    SubSeq(s, from + 1, IF to + 1 < Len(s) THEN to + 1 ELSE Len(s))

\* String.prototype.slice(from, to) with 0-based from <= length
Slice(s, from, to) ==
    SubSeq(s, from + 1, IF to < Len(s) THEN to ELSE Len(s))

RECURSIVE ChunkLoopFullOnly(_, _, _, _, _)
\* the windowing loop stopping where a whole chunk no longer fits
ChunkLoopFullOnly(text, i, chunkSize, overlapSize, metadata) ==
    IF ~(i + chunkSize <= Len(text)) THEN <<>>
    ELSE <<[text |-> Slice(text, i, i + chunkSize),
            index |-> FloorDiv(i, chunkSize - overlapSize),
            metadata |-> metadata]>>
         \o ChunkLoopFullOnly(text, i + (chunkSize - overlapSize), chunkSize,
                              overlapSize, metadata)

RECURSIVE ChunkLoop(_, _, _, _, _)
\* the windowing loop of chunkContent from offset i on
ChunkLoop(text, i, chunkSize, overlapSize, metadata) ==
    IF ~(i < Len(text)) THEN <<>>
    ELSE <<[text |-> Slice(text, i, i + chunkSize),
            index |-> FloorDiv(i, chunkSize - overlapSize),
            metadata |-> metadata]>>
         \o ChunkLoop(text, i + (chunkSize - overlapSize), chunkSize,
                      overlapSize, metadata)

\* chunkContent(content, file).  A document is [fm, body]: fm the lines of
\* its leading "---" block (none when it has no such block), body the text
\* after the block.
chunkContent(content, path, chunkSize, overlapSize) ==
    LET metadata == Spread(FrontMatter(content.fm),
                           [fileExtension |-> Extension(path),
                            totalChunks |-> CeilDiv(Len(content.body),
                                                    chunkSize - overlapSize)])
    IN  ChunkLoop(content.body, 0, chunkSize, overlapSize, metadata)

\* ---------------------------------------------------------- vector records

Digit(n) == <<"0", "1", "2", "3", "4", "5", "6", "7", "8", "9">>[n + 1]

RECURSIVE NumberToString(_)
\* the decimal digits of n >= 0, as a template literal prints a number
NumberToString(n) == IF n < 10 THEN <<Digit(n)>> ELSE NumberToString(n \div 10) \o <<Digit(n % 10)>>

\* an id that also carries a counter read when the record is built
RecordIdStamped(path, index) ==
    path \o <<"_", "c", "h", "u", "n", "k", "_">> \o NumberToString(index)
         \o <<"_">> \o NumberToString(nOps)

\* `${file.path}_chunk_${chunk.index}`
RecordId(path, index) ==
    path \o <<"_", "c", "h", "u", "n", "k", "_">> \o NumberToString(index)

\* the embedding the backend returns for a text: one vector per text
Embed(text) == <<"embedding", text>>

\* the record indexFile hands to upsertToVectorDb for one chunk.  The
\* payload's lastModified (the file's mtime) is left out: the vault keeps no
\* clock here.
VectorRecord(path, chunk, vector) ==
    [id |-> RecordId(path, chunk.index),
     vector |-> vector,
     payload |-> Spread([filePath |-> path,
                         fileName |-> BaseName(path),
                         chunkIndex |-> chunk.index],
                        chunk.metadata)]

\* qdrantClient.upsert: insert or replace the point with the record's id
Upsert(points, record) ==
    {r \in points : r.id # record.id} \cup {record}

\* the points a filtered search on payload.filePath can return
PointsOfFile(points, filePath) ==
    {r \in points : r.payload.filePath = filePath}

RECURSIVE Without(_, _)
\* the ways to leave k elements of a set out
Without(S, k) ==
    IF k <= 0 THEN {S}
    ELSE UNION {Without(S \ {x}, k - 1) : x \in S}

\* a filtered search that returns every matching point
SearchIdsUnlimited(points, filePath, limit) ==
    {{r.id : r \in PointsOfFile(points, filePath)}}

\* qdrantClient.search with a filter and a limit: the ids of at most `limit`
\* of the matching points (which ones is the store's choice when more match)
SearchIds(points, filePath, limit) ==
    LET hits == {r.id : r \in PointsOfFile(points, filePath)}
    IN  Without(hits, Cardinality(hits) - limit)

\* qdrantClient.delete by point ids
DeletePoints(points, ids) == {r \in points : r.id \notin ids}

\* ------------------------------------------------------------------ inputs

PathA == <<"a", ".", "m", "d">>
PathB == <<"b", ".", "m", "d">>
PathX == <<"a", ".", "p", "n", "g">>
Paths == {PathA, PathB, PathX}

NoFile == [exists |-> FALSE, fm |-> <<>>, body |-> <<>>]
Document(n) == [exists |-> TRUE, fm |-> <<>>, body |-> [k \in 1..n |-> "x"]]
Documents == {Document(n) : n \in 0..MaxLen}

\* the tools createDefaultTools registers: four always, two more while
\* vector sync is enabled
CoreTools == {"get-active-file", "create-note", "search-notes", "get-vault-stats"}
VectorTools == {"vector-search", "vector-sync-status"}
DefaultTools(vectorSync) == CoreTools \cup (IF vectorSync THEN VectorTools ELSE {})

\* the tool a .js file of the tools folder defines
CustomTool == "my-tool"

\* DEFAULT_SETTINGS.vectorSync.syncRules
DefaultSyncRules ==
    <<[id |-> "all-markdown", name |-> "All Markdown Files", enabled |-> TRUE,
       type |-> "extension", pattern |-> <<"m", "d">>,
       exclude |-> << <<"t", "e", "m", "p", "l", "a", "t", "e", "s", "/", "*", "*">>,
                      <<"a", "r", "c", "h", "i", "v", "e", "/", "*", "*">> >>]>>

\* the default rule with one more exclude pattern, "[draft", typed by the user
BracketSyncRules ==
    <<[DefaultSyncRules[1] EXCEPT
        !.exclude = @ \o << <<"[", "d", "r", "a", "f", "t">> >>]>>

RuleSets == {DefaultSyncRules, BracketSyncRules}

\* a rule for the one file a.md, then the rule for markdown files with the
\* exclude pattern "[draft"
MixedSyncRules ==
    <<[id |-> "one-file", name |-> "One File", enabled |-> TRUE,
       type |-> "file", pattern |-> <<"a", ".", "m", "d">>, exclude |-> <<>>],
      [DefaultSyncRules[1] EXCEPT
        !.exclude = << <<"[", "d", "r", "a", "f", "t">> >>]>>

SyncRuleSets == {DefaultSyncRules, MixedSyncRules}

Slots == 1..MaxTasks

NoRecord == [id |-> <<>>, vector |-> <<>>, payload |-> <<>>]

IdleTask ==
    [kind |-> "idle", path |-> <<>>, added |-> <<>>, live |-> FALSE, pc |-> "idle",
     chunks |-> <<>>, i |-> 0, record |-> NoRecord, ids |-> {},
     bySync |-> FALSE, embedFailed |-> FALSE, pure |-> FALSE]

NoClear == [pc |-> "idle", result |-> "none", progress |-> <<>>]
NoProbe == [op |-> "none", input |-> <<>>, result |-> <<>>]
NoRuns == [n |-> 0, first |-> {}, last |-> {}]
NoEvent == [ev |-> "none", other |-> <<>>]

\* The plugin has loaded with vector sync enabled: the client is set, the
\* listeners are registered, the status bar shows "ready".  The vault holds
\* any files; nothing is indexed yet.
Init ==
    /\ settings \in {[enabled |-> TRUE, syncRules |-> r,
                      chunkSize |-> CfgChunkSize, overlapSize |-> CfgOverlapSize,
                      dimension |-> DefaultDimension]
                     : r \in RuleSets}
    /\ qdrantClient = TRUE
    /\ vault \in [Paths -> Documents \cup {NoFile}]
    /\ collection = "absent"
    /\ store = {}
    /\ syncQueue = {}
    /\ status = "ready"
    /\ tasks = [s \in Slots |-> IdleTask]
    /\ sync = [pc |-> "idle", files |-> <<>>, k |-> 0]
    /\ search = [pc |-> "idle", embedFailed |-> FALSE, result |-> "none"]
    /\ raised = FALSE
    /\ nOps = 0
    /\ nFailures = 0
    /\ lastEv = [p \in Paths |-> NoEvent]
    /\ clean = [p \in Paths |-> NoRuns]
    /\ collectionDim = 0
    /\ clear = NoClear
    /\ probe = NoProbe
    /\ sessions = <<>>
    /\ clock = 0
    /\ requests = <<>>
    /\ serverEnabled = TRUE
    /\ httpServer = 1
    /\ servers = <<"listening">>
    /\ calls = <<>>
    /\ loadedTools = DefaultTools(settings.enabled) \cup {CustomTool}
    /\ toolFiles = 1
    /\ listeners = IF settings.enabled THEN 1 ELSE 0

\* ----------------------------------------------------------------- helpers

FreeSlots(tk) == {s \in Slots : tk[s].kind = "idle"}
FirstFree(tk) == CHOOSE s \in FreeSlots(tk) : \A t \in FreeSlots(tk) : s <= t

\* some call on the path is in flight
Busy(tk, path) == \E s \in Slots : tk[s].kind # "idle" /\ tk[s].path = path

\* The event loop can run a listener or a callback: no continuation of
\* syncEntireVault is due (a microtask runs first) and no chunkContent call
\* is inside a loop that cannot end.
EventLoopFree ==
    /\ sync.pc # "resume"
    /\ \A s \in Slots : tasks[s].pc # "chunkContent"

\* history: the calls in flight on these paths no longer run undisturbed
Disturb(tk, P) ==
    [s \in Slots |->
        IF tk[s].kind # "idle" /\ tk[s].path \in P
        THEN [tk[s] EXCEPT !.pure = FALSE] ELSE tk[s]]

\* matchesSyncRules for every rule set and path of the model, evaluated once
TrackedTable ==
    [e \in BOOLEAN |-> [r \in RuleSets \cup SyncRuleSets |-> [p \in Paths |->
        matchesSyncRules(e, r, p)]]]

Tracked(path) == TrackedTable[settings.enabled][settings.syncRules][path]

\* indexFile(file) up to its first await (vault.read): the call is in flight
\* with the path queued; the caller publishes "syncing"
IndexCall(tk, path, live, bySync) ==
    [Disturb(tk, {path}) EXCEPT ![FirstFree(tk)] =
        [IdleTask EXCEPT !.kind = "index", !.path = path, !.added = path,
                         !.live = live,
                         !.pc = "read", !.bySync = bySync,
                         !.pure = ~Busy(tk, path)]]

\* removeFromIndex(filePath) up to its first await (the filtered search);
\* without a client deleteFromQdrant throws at once and the error is logged
RemoveCall(tk, path) ==
    IF ~qdrantClient THEN Disturb(tk, {path})
    ELSE [Disturb(tk, {path}) EXCEPT ![FirstFree(tk)] =
            [IdleTask EXCEPT !.kind = "remove", !.path = path, !.pc = "search"]]

\* history: the ids and vectors of the points of a file
IdsAndVectors(points, path) ==
    {<<r.id, r.vector>> : r \in PointsOfFile(points, path)}

\* history: one more complete run on the path, undisturbed or not
AfterRun(runs, undisturbed, points, path) ==
    IF ~undisturbed THEN NoRuns
    ELSE [n |-> IF runs.n < 2 THEN runs.n + 1 ELSE 2,
          first |-> IF runs.n = 0 THEN IdsAndVectors(points, path) ELSE runs.first,
          last |-> IdsAndVectors(points, path)]

\* A call to the host, the embedding backend or the store returns (ok) or
\* fails.  It can return only when `possible` (a missing file cannot be read,
\* a missing collection cannot be written or searched, an existing one cannot
\* be created); the failures of calls that could have returned are counted
\* and bounded.
Outcome(ok, possible) ==
    /\ ok => possible
    /\ (~ok /\ possible) => nFailures < MaxFailures
    /\ nFailures' = IF ~ok /\ possible THEN nFailures + 1 ELSE nFailures

\* ------------------------------------------------------------ vault events

\* A listener of setupEventListeners runs inside the host's event: the vault
\* has changed, matchesSyncRules decides, and the calls it makes run up to
\* their first await.  While a syncEntireVault continuation is due (a
\* microtask), no event and no callback runs.

Create(p, doc) ==
    /\ EventLoopFree /\ nOps < MaxOps
    /\ ~vault[p].exists
    /\ \E m \in {Tracked(p)} :
        /\ (m = "true") => FreeSlots(tasks) # {}
        /\ raised' = (raised \/ m = "throw")
        /\ tasks' = IF m = "true" THEN IndexCall(tasks, p, TRUE, FALSE)
                    ELSE Disturb(tasks, {p})
        /\ syncQueue' = IF m = "true" THEN syncQueue \cup {p} ELSE syncQueue
        /\ status' = IF m = "true" THEN "syncing" ELSE status
    /\ vault' = [vault EXCEPT ![p] = doc]
    /\ nOps' = nOps + 1
    /\ lastEv' = [lastEv EXCEPT ![p] = [ev |-> "create", other |-> <<>>]]
    /\ clean' = [clean EXCEPT ![p] = NoRuns]
    /\ UNCHANGED <<listeners, endpoint, clear, probe, settings, qdrantClient, collection, collectionDim, store, sync, search,
                   nFailures>>

Modify(p, doc) ==
    /\ EventLoopFree /\ nOps < MaxOps
    /\ vault[p].exists
    /\ \E m \in {Tracked(p)},
          tk \in {IF doc = vault[p] THEN tasks ELSE Disturb(tasks, {p})} :
        /\ (m = "true") => FreeSlots(tasks) # {}
        /\ raised' = (raised \/ m = "throw")
        /\ tasks' = IF m = "true" THEN IndexCall(tk, p, TRUE, FALSE) ELSE tk
        /\ syncQueue' = IF m = "true" THEN syncQueue \cup {p} ELSE syncQueue
        /\ status' = IF m = "true" THEN "syncing" ELSE status
    /\ vault' = [vault EXCEPT ![p] = doc]
    /\ nOps' = nOps + 1
    /\ lastEv' = [lastEv EXCEPT ![p] = [ev |-> "modify", other |-> <<>>]]
    /\ clean' = IF doc = vault[p] THEN clean ELSE [clean EXCEPT ![p] = NoRuns]
    /\ UNCHANGED <<listeners, endpoint, clear, probe, settings, qdrantClient, collection, collectionDim, store, sync, search,
                   nFailures>>

\* the TFile objects held by calls in flight stay as they are when their
\* file is deleted: they keep the path and are no longer the vault's
Detach(tk, p) ==
    [s \in Slots |->
        IF tk[s].kind = "index" /\ tk[s].path = p
        THEN [tk[s] EXCEPT !.live = FALSE] ELSE tk[s]]

DetachFiles(files, p) ==
    [k \in DOMAIN files |->
        IF files[k].path = p THEN [files[k] EXCEPT !.live = FALSE] ELSE files[k]]

Delete(p) ==
    /\ EventLoopFree /\ nOps < MaxOps
    /\ vault[p].exists
    /\ \E m \in {Tracked(p)}, tk \in {Detach(tasks, p)} :
        /\ (m = "true") => FreeSlots(tasks) # {}
        /\ raised' = (raised \/ m = "throw")
        /\ tasks' = IF m = "true" THEN RemoveCall(tk, p) ELSE Disturb(tk, {p})
    /\ vault' = [vault EXCEPT ![p] = NoFile]
    /\ sync' = [sync EXCEPT !.files = DetachFiles(@, p)]
    /\ nOps' = nOps + 1
    /\ lastEv' = [lastEv EXCEPT ![p] = [ev |-> IF @.ev = "modify" THEN "deleteAfterModify" ELSE "delete",
                                             other |-> <<>>]]
    /\ clean' = [clean EXCEPT ![p] = NoRuns]
    /\ UNCHANGED <<listeners, endpoint, clear, probe, settings, qdrantClient, collection, collectionDim, store, syncQueue, status,
                   search, nFailures>>

\* The host renames a file by giving its TFile object the new path (the
\* listener receives that object and the old path apart): the calls in flight
\* that hold the object see the new path from then on.
Repath(tk, p, q) ==
    [s \in Slots |->
        IF tk[s].kind = "index" /\ tk[s].path = p /\ tk[s].live
        THEN [tk[s] EXCEPT !.path = q] ELSE tk[s]]

RepathFiles(files, p, q) ==
    [k \in DOMAIN files |->
        IF files[k].path = p /\ files[k].live
        THEN [files[k] EXCEPT !.path = q] ELSE files[k]]

Rename(p, q) ==
    /\ EventLoopFree /\ nOps < MaxOps
    /\ p # q /\ vault[p].exists /\ ~vault[q].exists
    /\ \E m \in {Tracked(q)}, tk \in {Disturb(Repath(tasks, p, q), {p, q})} :
        /\ (m = "true") =>
              Cardinality(FreeSlots(tasks)) >= (IF qdrantClient THEN 2 ELSE 1)
        /\ raised' = (raised \/ m = "throw")
        /\ tasks' = IF m = "true" THEN IndexCall(RemoveCall(tk, p), q, TRUE, FALSE)
                    ELSE tk
        /\ syncQueue' = IF m = "true" THEN syncQueue \cup {q} ELSE syncQueue
        /\ status' = IF m = "true" THEN "syncing" ELSE status
        /\ lastEv' = [lastEv EXCEPT
              ![p] = [ev |-> IF m = "true" THEN "renamedFrom"
                             ELSE IF m = "throw" THEN "renameThrew"
                             ELSE IF Busy(tasks, p) THEN "renamedAwayBusy"
                             ELSE "renamedAway",
                      other |-> q],
              ![q] = [ev |-> IF m = "true" THEN "renamedTo" ELSE "renamedUntracked",
                      other |-> p]]
    /\ vault' = [vault EXCEPT ![q] = vault[p], ![p] = NoFile]
    /\ sync' = [sync EXCEPT !.files = RepathFiles(@, p, q)]
    /\ nOps' = nOps + 1
    /\ clean' = [clean EXCEPT ![p] = NoRuns, ![q] = NoRuns]
    /\ UNCHANGED <<listeners, endpoint, clear, probe, settings, qdrantClient, collection, collectionDim, store, search,
                   nFailures>>

\* ------------------------------------------------------------- indexFile

\* the status indexFile publishes when it leaves its loop
FinalStatus(t) == IF syncQueue \ {t.path} = {} THEN "ready" ELSE "syncing"

\* indexFile returns: after its loop (st is "ready" or "syncing") or from its
\* catch block (st is "error").  An awaiting syncEntireVault resumes next.
EndOfIndexFile(s, t, st) ==
    /\ syncQueue' = syncQueue \ {t.path}
    /\ status' = st
    /\ tasks' = [tasks EXCEPT ![s] = IdleTask]
    /\ sync' = IF t.bySync THEN [sync EXCEPT !.pc = "resume"] ELSE sync
    /\ clean' = [clean EXCEPT ![t.path] =
                    AfterRun(@, t.pure /\ st # "error", store', t.path)]

\* the loop of indexFile left at the first chunk whose embedding failed
ProceedUntilFailure(s, t) ==
    IF t.i < Len(t.chunks) /\ ~t.embedFailed
    THEN /\ tasks' = [tasks EXCEPT ![s] =
                        [t EXCEPT !.i = @ + 1, !.pc = "embed", !.record = NoRecord]]
         /\ UNCHANGED <<syncQueue, status, sync, clean>>
    ELSE EndOfIndexFile(s, t, FinalStatus(t))

\* the loop of indexFile once chunk t.i is dealt with
Proceed(s, t) ==
    IF t.i < Len(t.chunks)
    THEN /\ tasks' = [tasks EXCEPT ![s] =
                        [t EXCEPT !.i = @ + 1, !.pc = "embed", !.record = NoRecord]]
         /\ UNCHANGED <<syncQueue, status, sync, clean>>
    ELSE EndOfIndexFile(s, t, FinalStatus(t))

\* vault.read returns or throws; chunkContent; the first embedding is asked for
IndexRead(s) ==
    /\ EventLoopFree
    /\ tasks[s].kind = "index" /\ tasks[s].pc = "read"
    /\ UNCHANGED <<store, collection, collectionDim>>
    /\ \E ok \in BOOLEAN :
        /\ Outcome(ok, vault[tasks[s].path].exists)
        /\ IF ~ok THEN EndOfIndexFile(s, tasks[s], "error")
           ELSE IF /\ settings.chunkSize - settings.overlapSize <= 0
                   /\ vault[tasks[s].path].body # <<>>
           THEN \* the loop of chunkContent never moves past the body's end
                /\ tasks' = [tasks EXCEPT ![s] = [@ EXCEPT !.pc = "chunkContent"]]
                /\ UNCHANGED <<syncQueue, status, sync, clean>>
           ELSE LET chunks == chunkContent(vault[tasks[s].path], tasks[s].path,
                                           settings.chunkSize, settings.overlapSize)
                    t == [tasks[s] EXCEPT !.chunks = chunks, !.i = 1, !.pc = "embed"]
                IN  IF chunks = <<>> THEN EndOfIndexFile(s, t, FinalStatus(t))
                    ELSE /\ tasks' = [tasks EXCEPT ![s] = t]
                         /\ UNCHANGED <<syncQueue, status, sync, clean>>
    /\ UNCHANGED <<listeners, endpoint, clear, probe, settings, qdrantClient, vault, search, raised, nOps, lastEv>>

\* generateEmbedding returns a vector or null; with a vector the record is
\* built and upsertToQdrant starts (it throws without a client, and
\* upsertToVectorDb logs that)
IndexEmbed(s) ==
    /\ EventLoopFree
    /\ tasks[s].kind = "index" /\ tasks[s].pc = "embed"
    /\ UNCHANGED <<store, collection, collectionDim>>
    /\ \E ok \in BOOLEAN :
        /\ Outcome(ok, TRUE)
        /\ LET t == tasks[s]
               chunk == t.chunks[t.i]
           IN  IF ~ok
               THEN Proceed(s, [t EXCEPT !.embedFailed = TRUE, !.pure = FALSE])
               ELSE IF ~qdrantClient
               THEN Proceed(s, [t EXCEPT !.pure = FALSE])
               ELSE /\ tasks' = [tasks EXCEPT ![s] =
                          [t EXCEPT !.pc = "getCollections",
                                    !.record = VectorRecord(t.path, chunk,
                                                            Embed(chunk.text))]]
                    /\ UNCHANGED <<syncQueue, status, sync, clean>>
    /\ UNCHANGED <<listeners, endpoint, clear, probe, settings, qdrantClient, vault, search, raised, nOps, lastEv>>

\* ensureCollection: getCollections returns or fails (logged)
IndexGetCollections(s) ==
    /\ EventLoopFree
    /\ tasks[s].kind = "index" /\ tasks[s].pc = "getCollections"
    /\ \E ok \in BOOLEAN :
        /\ Outcome(ok, TRUE)
        /\ tasks' = [tasks EXCEPT ![s] =
              [@ EXCEPT !.pc = IF ok /\ collection = "absent"
                                 THEN "createCollection" ELSE "upsert",
                        !.pure = @ /\ ok]]
    /\ UNCHANGED <<listeners, endpoint, clear, probe, settings, qdrantClient, vault, collection, collectionDim, store, syncQueue,
                   status, sync, search, raised, nOps, lastEv, clean>>

\* ensureCollection: createCollection returns or fails (logged); it fails
\* when the collection exists by now
IndexCreateCollection(s) ==
    /\ EventLoopFree
    /\ tasks[s].kind = "index" /\ tasks[s].pc = "createCollection"
    /\ \E ok \in BOOLEAN :
        /\ Outcome(ok, collection = "absent")
        /\ collection' = IF ok THEN "present" ELSE collection
        /\ collectionDim' = IF ok THEN settings.dimension ELSE collectionDim
        /\ tasks' = [tasks EXCEPT ![s] =
              [@ EXCEPT !.pc = "upsert",
                        !.pure = @ /\ (ok \/ collection = "present")]]
    /\ UNCHANGED <<listeners, endpoint, clear, probe, settings, qdrantClient, vault, store, syncQueue, status, sync,
                   search, raised, nOps, lastEv, clean>>

\* qdrantClient.upsert returns or fails (logged by upsertToVectorDb); the
\* loop goes on with the next chunk or indexFile ends
IndexUpsert(s) ==
    /\ EventLoopFree
    /\ tasks[s].kind = "index" /\ tasks[s].pc = "upsert"
    /\ UNCHANGED <<collection, collectionDim>>
    /\ \E ok \in BOOLEAN :
        /\ Outcome(ok, collection = "present")
        /\ store' = IF ok THEN Upsert(store, tasks[s].record) ELSE store
        /\ Proceed(s, [tasks[s] EXCEPT !.pure = @ /\ ok])
    /\ UNCHANGED <<listeners, endpoint, clear, probe, settings, qdrantClient, vault, search, raised, nOps, lastEv>>

\* ------------------------------------------------------- removeFromIndex

\* deleteFromQdrant: the filtered search returns or fails (logged); with no
\* point found nothing is deleted
RemoveSearch(s) ==
    /\ EventLoopFree
    /\ tasks[s].kind = "remove" /\ tasks[s].pc = "search"
    /\ \E ok \in BOOLEAN :
        /\ Outcome(ok, collection = "present")
        /\ IF ~ok THEN tasks' = [tasks EXCEPT ![s] = IdleTask]
           ELSE \E ids \in SearchIds(store, tasks[s].path, DeleteSearchLimit) :
                  tasks' = [tasks EXCEPT ![s] =
                      IF ids = {} THEN IdleTask
                      ELSE [@ EXCEPT !.pc = "delete", !.ids = ids]]
    /\ UNCHANGED <<listeners, endpoint, clear, probe, settings, qdrantClient, vault, collection, collectionDim, store, syncQueue,
                   status, sync, search, raised, nOps, lastEv, clean>>

\* deleteFromQdrant: the delete by ids returns or fails (logged)
RemoveDelete(s) ==
    /\ EventLoopFree
    /\ tasks[s].kind = "remove" /\ tasks[s].pc = "delete"
    /\ \E ok \in BOOLEAN :
        /\ Outcome(ok, collection = "present")
        /\ store' = IF ok THEN DeletePoints(store, tasks[s].ids) ELSE store
    /\ tasks' = [tasks EXCEPT ![s] = IdleTask]
    /\ UNCHANGED <<listeners, endpoint, clear, probe, settings, qdrantClient, vault, collection, collectionDim, syncQueue, status,
                   sync, search, raised, nOps, lastEv, clean>>

\* ------------------------------------------------------- syncEntireVault

\* the orders in which vault.getFiles can list a set of files
Orders(S) ==
    {f \in [1..Cardinality(S) -> [path : S, live : {TRUE}]] :
        \A j, k \in DOMAIN f : j # k => f[j].path # f[k].path}

AllOrders == {<<>>} \cup UNION {Orders(S) : S \in SUBSET Paths}

\* syncEntireVault up to its first await: "syncing" is published, the files
\* are filtered (the filter throws when a rule cannot be evaluated, and the
\* button's handler reports it), and the first indexFile is called.  The
\* button stays disabled while a sync runs.
SyncStart(files) ==
    /\ sync.pc = "idle" /\ nOps < MaxOps
    /\ settings.enabled
    /\ \E threw \in {\E p \in Paths : vault[p].exists /\ Tracked(p) = "throw"},
          wanted \in {{p \in Paths : vault[p].exists /\ Tracked(p) = "true"}} :
           IF threw \/ wanted = {}
           THEN /\ files = <<>>
                /\ status' = "syncing"
                /\ UNCHANGED <<tasks, syncQueue, sync>>
           ELSE /\ files \in Orders(wanted)
                /\ FreeSlots(tasks) # {}
                /\ tasks' = IndexCall(tasks, files[1].path, TRUE, TRUE)
                /\ syncQueue' = syncQueue \cup {files[1].path}
                /\ status' = "syncing"
                /\ sync' = [pc |-> "await", files |-> files, k |-> 1]
    /\ nOps' = nOps + 1
    /\ UNCHANGED <<listeners, endpoint, clear, probe, settings, qdrantClient, vault, collection, collectionDim, store, search,
                   raised, nFailures, lastEv, clean>>

\* syncEntireVault after `await this.indexFile(file)`: the next file's
\* indexFile is called, or the final "ready" is published
SyncResume ==
    /\ sync.pc = "resume"
    /\ IF sync.k < Len(sync.files)
       THEN LET next == sync.files[sync.k + 1] IN
            /\ tasks' = IndexCall(tasks, next.path, next.live, TRUE)
            /\ syncQueue' = syncQueue \cup {next.path}
            /\ status' = "syncing"
            /\ sync' = [sync EXCEPT !.pc = "await", !.k = @ + 1]
       ELSE /\ status' = "ready"
            /\ sync' = [pc |-> "idle", files |-> <<>>, k |-> 0]
            /\ UNCHANGED <<tasks, syncQueue>>
    /\ UNCHANGED <<listeners, endpoint, clear, probe, settings, qdrantClient, vault, collection, collectionDim, store, search,
                   raised, nOps, nFailures, lastEv, clean>>

\* ---------------------------------------------------------- searchSimilar

\* vectorSearch calls searchSimilar, which asks for the query's embedding
SearchStart ==
    /\ EventLoopFree /\ nOps < MaxOps
    /\ search.pc = "idle"
    /\ settings.enabled
    /\ search' = [pc |-> "embed", embedFailed |-> FALSE, result |-> "none"]
    /\ nOps' = nOps + 1
    /\ UNCHANGED <<listeners, endpoint, clear, probe, settings, qdrantClient, vault, collection, collectionDim, store, syncQueue,
                   status, tasks, sync, raised, nFailures, lastEv, clean>>

\* generateEmbedding returns a vector or null.  On null searchSimilar throws
\* inside its own try block, whose catch returns []; with a vector
\* searchQdrant starts (it throws without a client, into the same catch).
SearchEmbed ==
    /\ EventLoopFree
    /\ search.pc = "embed"
    /\ \E ok \in BOOLEAN :
        /\ Outcome(ok, TRUE)
        /\ search' = IF ~ok
                     THEN [pc |-> "idle", embedFailed |-> TRUE, result |-> "empty"]
                     ELSE IF ~qdrantClient
                     THEN [search EXCEPT !.pc = "idle", !.result = "empty"]
                     ELSE [search EXCEPT !.pc = "query"]
    /\ UNCHANGED <<listeners, endpoint, clear, probe, settings, qdrantClient, vault, collection, collectionDim, store, syncQueue,
                   status, tasks, sync, raised, nOps, lastEv, clean>>

\* qdrantClient.search returns the nearest points or fails; the catch block
\* of searchSimilar turns a failure into []
SearchQuery ==
    /\ EventLoopFree
    /\ search.pc = "query"
    /\ \E ok \in BOOLEAN :
        /\ Outcome(ok, collection = "present")
        /\ search' = [search EXCEPT
              !.pc = "idle",
              !.result = IF ok /\ store # {} THEN "hits" ELSE "empty"]
    /\ UNCHANGED <<listeners, endpoint, clear, probe, settings, qdrantClient, vault, collection, collectionDim, store, syncQueue,
                   status, tasks, sync, raised, nOps, lastEv, clean>>

\* ----------------------------------------------------------- specification

Next ==
    \/ \E p \in Paths, doc \in Documents : Create(p, doc)
    \/ \E p \in Paths, doc \in Documents : Modify(p, doc)
    \/ \E p \in Paths : Delete(p)
    \/ \E p, q \in Paths : Rename(p, q)
    \/ \E s \in Slots : IndexRead(s)
    \/ \E s \in Slots : IndexEmbed(s)
    \/ \E s \in Slots : IndexGetCollections(s)
    \/ \E s \in Slots : IndexCreateCollection(s)
    \/ \E s \in Slots : IndexUpsert(s)
    \/ \E s \in Slots : RemoveSearch(s)
    \/ \E s \in Slots : RemoveDelete(s)
    \/ \E files \in AllOrders : SyncStart(files)
    \/ SyncResume
    \/ SearchStart
    \/ SearchEmbed
    \/ SearchQuery

Spec == Init /\ [][Next]_vars

\* the continuations of the calls in flight: every awaited read, embedding
\* and store call returns with a value or an error, and the code after it
\* runs
Continuations ==
    \/ \E s \in Slots : IndexRead(s)
    \/ \E s \in Slots : IndexEmbed(s)
    \/ \E s \in Slots : IndexGetCollections(s)
    \/ \E s \in Slots : IndexCreateCollection(s)
    \/ \E s \in Slots : IndexUpsert(s)
    \/ \E s \in Slots : RemoveSearch(s)
    \/ \E s \in Slots : RemoveDelete(s)
    \/ SyncResume
    \/ SearchEmbed
    \/ SearchQuery

SpecFair == Init /\ [][Next]_vars /\ WF_vars(Continuations)

\* The deletion of a file whose points an earlier session has indexed: n
\* one-character chunks (chunkSize 1, overlapSize 0), for n around the limit
\* of the filtered search.
DeleteSizes == {0, 1, 2, DeleteSearchLimit - 1, DeleteSearchLimit, DeleteSearchLimit + 1}

IndexedPoints(path, n) ==
    {VectorRecord(path,
                  [text |-> <<"x">>, index |-> k,
                   metadata |-> [fileExtension |-> Extension(path), totalChunks |-> n]],
                  Embed(<<"x">>)) : k \in 0..(n - 1)}

InitDelete ==
    /\ settings = [enabled |-> TRUE, syncRules |-> DefaultSyncRules,
                   chunkSize |-> 1, overlapSize |-> 0,
                   dimension |-> DefaultDimension]
    /\ qdrantClient = TRUE
    /\ \E p \in {PathA}, n \in DeleteSizes :
        /\ vault = [q \in Paths |-> IF q = p THEN Document(n) ELSE NoFile]
        /\ store = IndexedPoints(p, n)
    /\ collection = "present"
    /\ syncQueue = {}
    /\ status = "ready"
    /\ tasks = [s \in Slots |-> IdleTask]
    /\ sync = [pc |-> "idle", files |-> <<>>, k |-> 0]
    /\ search = [pc |-> "idle", embedFailed |-> FALSE, result |-> "none"]
    /\ raised = FALSE
    /\ nOps = 0
    /\ nFailures = 0
    /\ lastEv = [p \in Paths |-> NoEvent]
    /\ clean = [p \in Paths |-> NoRuns]
    /\ collectionDim = DefaultDimension
    /\ clear = NoClear
    /\ probe = NoProbe
    /\ sessions = <<>>
    /\ clock = 0
    /\ requests = <<>>
    /\ serverEnabled = TRUE
    /\ httpServer = 1
    /\ servers = <<"listening">>
    /\ calls = <<>>
    /\ loadedTools = DefaultTools(settings.enabled) \cup {CustomTool}
    /\ toolFiles = 1
    /\ listeners = IF settings.enabled THEN 1 ELSE 0

NextDelete ==
    \/ \E p \in Paths : Delete(p)
    \/ \E s \in Slots : RemoveSearch(s)
    \/ \E s \in Slots : RemoveDelete(s)

SpecDelete == InitDelete /\ [][NextDelete]_vars

\* A file of three chunks (three characters, chunkSize 1, overlapSize 0) is
\* saved, once or again while the first indexFile call runs; one call of the
\* backends may fail.
ThreeChunks == Document(3)

InitPartial ==
    /\ settings = [enabled |-> TRUE, syncRules |-> DefaultSyncRules,
                   chunkSize |-> 1, overlapSize |-> 0,
                   dimension |-> DefaultDimension]
    /\ qdrantClient = TRUE
    /\ vault = [q \in Paths |-> IF q = PathA THEN ThreeChunks ELSE NoFile]
    /\ collection \in {"absent", "present"}
    /\ collectionDim = IF collection = "present" THEN DefaultDimension ELSE 0
    /\ store = {}
    /\ syncQueue = {}
    /\ status = "ready"
    /\ tasks = [s \in Slots |-> IdleTask]
    /\ sync = [pc |-> "idle", files |-> <<>>, k |-> 0]
    /\ search = [pc |-> "idle", embedFailed |-> FALSE, result |-> "none"]
    /\ raised = FALSE
    /\ nOps = 0
    /\ nFailures = 0
    /\ lastEv = [p \in Paths |-> NoEvent]
    /\ clean = [p \in Paths |-> NoRuns]
    /\ clear = NoClear
    /\ probe = NoProbe
    /\ sessions = <<>>
    /\ clock = 0
    /\ requests = <<>>
    /\ serverEnabled = TRUE
    /\ httpServer = 1
    /\ servers = <<"listening">>
    /\ calls = <<>>
    /\ loadedTools = DefaultTools(settings.enabled) \cup {CustomTool}
    /\ toolFiles = 1
    /\ listeners = IF settings.enabled THEN 1 ELSE 0

NextPartial ==
    \/ Modify(PathA, ThreeChunks)
    \/ \E s \in Slots : IndexRead(s)
    \/ \E s \in Slots : IndexEmbed(s)
    \/ \E s \in Slots : IndexGetCollections(s)
    \/ \E s \in Slots : IndexCreateCollection(s)
    \/ \E s \in Slots : IndexUpsert(s)

SpecPartial == InitPartial /\ [][NextPartial]_vars

\* syncEntireVault over any vault, under the default rules or under rules of
\* which one cannot be evaluated for some files; files are deleted meanwhile.
InitSync ==
    /\ settings \in {[enabled |-> TRUE, syncRules |-> r,
                      chunkSize |-> CfgChunkSize, overlapSize |-> CfgOverlapSize,
                      dimension |-> DefaultDimension]
                     : r \in SyncRuleSets}
    /\ qdrantClient = TRUE
    /\ vault \in [Paths -> Documents \cup {NoFile}]
    /\ collection = "absent"
    /\ collectionDim = 0
    /\ store = {}
    /\ syncQueue = {}
    /\ status = "ready"
    /\ tasks = [s \in Slots |-> IdleTask]
    /\ sync = [pc |-> "idle", files |-> <<>>, k |-> 0]
    /\ search = [pc |-> "idle", embedFailed |-> FALSE, result |-> "none"]
    /\ raised = FALSE
    /\ nOps = 0
    /\ nFailures = 0
    /\ lastEv = [p \in Paths |-> NoEvent]
    /\ clean = [p \in Paths |-> NoRuns]
    /\ clear = NoClear
    /\ probe = NoProbe
    /\ sessions = <<>>
    /\ clock = 0
    /\ requests = <<>>
    /\ serverEnabled = TRUE
    /\ httpServer = 1
    /\ servers = <<"listening">>
    /\ calls = <<>>
    /\ loadedTools = DefaultTools(settings.enabled) \cup {CustomTool}
    /\ toolFiles = 1
    /\ listeners = IF settings.enabled THEN 1 ELSE 0

NextSync ==
    \/ \E files \in AllOrders : SyncStart(files)
    \/ SyncResume
    \/ \E p \in Paths : Delete(p)
    \/ \E s \in Slots : IndexRead(s)
    \/ \E s \in Slots : IndexEmbed(s)
    \/ \E s \in Slots : IndexGetCollections(s)
    \/ \E s \in Slots : IndexCreateCollection(s)
    \/ \E s \in Slots : IndexUpsert(s)
    \/ \E s \in Slots : RemoveSearch(s)
    \/ \E s \in Slots : RemoveDelete(s)

SpecSync == InitSync /\ [][NextSync]_vars

\* ---------------------------------------------- direct calls: rule engine

\* Paths and patterns the rule engine is called with directly: files in and
\* under folders, extensions in both cases, names with characters that are
\* special in a regular expression.
NotesA == <<"n", "o", "t", "e", "s", "/", "a", ".", "m", "d">>
NotesPng == <<"n", "o", "t", "e", "s", "/", "a", ".", "p", "n", "g">>
NotesUpper == <<"n", "o", "t", "e", "s", "/", "a", ".", "M", "D">>
TemplatesA == <<"t", "e", "m", "p", "l", "a", "t", "e", "s", "/", "a", ".", "m", "d">>
TemplatesDeep == <<"t", "e", "m", "p", "l", "a", "t", "e", "s", "/", "s", "/", "a", ".", "m", "d">>
ArchiveA == <<"a", "r", "c", "h", "i", "v", "e", "/", "a", ".", "m", "d">>
ArchiveDeep == <<"a", "r", "c", "h", "i", "v", "e", "/", "s", "/", "a", ".", "m", "d">>
AXmd == <<"a", "X", "m", "d">>
BracketDraft == <<"[", "d", "r", "a", "f", "t">>
ProbePaths == {PathA, PathX, NotesA, NotesPng, NotesUpper, TemplatesA, TemplatesDeep, ArchiveA, ArchiveDeep, AXmd, BracketDraft}

GlobMd == <<"*", ".", "m", "d">>
GlobAll == <<"*", "*">>
GlobNotes == <<"n", "o", "t", "e", "s", "/", "*">>
GlobTemplates == <<"t", "e", "m", "p", "l", "a", "t", "e", "s", "/", "*", "*">>
GlobArchive == <<"a", "r", "c", "h", "i", "v", "e", "/", "*", "*">>
GlobOneChar == <<"a", "?", "m", "d">>
GlobLiteral == <<"a", ".", "m", "d">>
GlobBracket == <<"[", "d", "r", "a", "f", "t">>
ProbePatterns == {GlobMd, GlobAll, GlobNotes, GlobTemplates, GlobArchive, GlobOneChar, GlobLiteral, GlobBracket}

\* a rule of the settings; id and name play no part in the evaluation
Rule(type, pattern, exclude, enabled) ==
    [id |-> "rule", name |-> "Rule", enabled |-> enabled, type |-> type,
     pattern |-> pattern, exclude |-> exclude]

ProbeExcludes == {<<>>, <<GlobTemplates, GlobArchive>>, <<GlobNotes>>, <<GlobBracket>>}

ProbeRules ==
    {Rule("extension", pat, ex, TRUE) :
        pat \in {<<"m", "d">>, <<".", "m", "d">>, <<"M", "D">>},
        ex \in ProbeExcludes}
    \cup {Rule("extension", <<"m", "d">>, <<>>, FALSE)}
    \cup {Rule("folder", <<"n", "o", "t", "e", "s", "/">>, <<>>, en) : en \in BOOLEAN}
    \cup {Rule("file", NotesPng, <<>>, TRUE)}
    \cup {Rule("pattern", pat, <<>>, TRUE) : pat \in {GlobMd, GlobBracket}}

RECURSIVE SeqsUpTo(_, _)
\* the sequences over S of length at most n
SeqsUpTo(S, n) ==
    IF n = 0 THEN {<<>>}
    ELSE LET shorter == SeqsUpTo(S, n - 1)
         IN  shorter \cup {Append(q, x) : q \in {r \in shorter : Len(r) = n - 1}, x \in S}

ProbeRuleSets == {DefaultSyncRules, BracketSyncRules} \cup SeqsUpTo(ProbeRules, MaxRules)

\* every variable but probe
pipeline == <<settings, qdrantClient, vault, collection, store, syncQueue,
              status, tasks, sync, search, raised, nOps, nFailures, lastEv,
              clean, collectionDim, clear, listeners>>

\* matchesPattern(filePath, pattern) called once
CallMatchesPattern(path, pattern) ==
    /\ probe.op = "none"
    /\ probe' = [op |-> "matchesPattern",
                 input |-> [path |-> path, pattern |-> pattern],
                 result |-> matchesPattern(path, pattern)]
    /\ UNCHANGED <<endpoint, pipeline>>

\* evaluateRule(file, rule) called once
CallEvaluateRule(path, rule) ==
    /\ probe.op = "none"
    /\ probe' = [op |-> "evaluateRule",
                 input |-> [path |-> path, rule |-> rule],
                 result |-> evaluateRule(path, rule)]
    /\ UNCHANGED <<endpoint, pipeline>>

\* matchesSyncRules(file) called once under settings with these rules
CallMatchesSyncRules(path, enabledFlag, rules) ==
    /\ probe.op = "none"
    /\ probe' = [op |-> "matchesSyncRules",
                 input |-> [path |-> path, enabled |-> enabledFlag, rules |-> rules],
                 result |-> matchesSyncRules(enabledFlag, rules, path)]
    /\ UNCHANGED <<endpoint, pipeline>>

InitRules ==
    /\ Init
    /\ settings.syncRules = DefaultSyncRules
    /\ vault = [p \in Paths |-> NoFile]

NextRules ==
    \/ probe.op = "none" /\ \E path \in ProbePaths, pattern \in ProbePatterns :
          CallMatchesPattern(path, pattern)
    \/ probe.op = "none" /\ \E path \in ProbePaths, rule \in ProbeRules :
          CallEvaluateRule(path, rule)
    \/ probe.op = "none" /\ \E path \in ProbePaths, e \in BOOLEAN, rules \in ProbeRuleSets :
          CallMatchesSyncRules(path, e, rules)

SpecRules == InitRules /\ [][NextRules]_vars

\* ---------------------------------------------------- direct calls: chunker

\* a body of n characters
ProbeBody(n) == [k \in 1..n |-> Digit(k % 10)]

\* front matter of the probed documents: none, one "title: t" line, or a
\* line with the key the chunker writes itself
ProbeFrontMatters == {<<>>, << <<"title", "t">> >>, << <<"totalChunks", "9">> >>}

\* the document of the worked example: 2500 characters, no front matter
ScenarioDocument == [exists |-> TRUE, fm |-> <<>>, body |-> ProbeBody(2500)]

\* one call of chunkContent(content, file) with the sizes in the settings;
\* the loop ends only when chunkSize - overlapSize is positive
CallChunkContent(content, path, chunkSize, overlapSize) ==
    /\ probe.op = "none"
    /\ chunkSize - overlapSize > 0
    /\ probe' = [op |-> "chunkContent",
                 input |-> [content |-> content, path |-> path,
                            chunkSize |-> chunkSize, overlapSize |-> overlapSize],
                 result |-> chunkContent(content, path, chunkSize, overlapSize)]
    /\ UNCHANGED <<endpoint, pipeline>>

NextChunk ==
    \/ probe.op = "none" /\ \E n \in 0..MaxBody, fm \in ProbeFrontMatters,
          chunkSize \in 1..MaxChunk, overlapSize \in 0..MaxChunk :
          CallChunkContent([exists |-> TRUE, fm |-> fm, body |-> ProbeBody(n)],
                           NotesA, chunkSize, overlapSize)
    \/ CallChunkContent(ScenarioDocument, NotesA, DefaultChunkSize, DefaultOverlapSize)

SpecChunk == InitRules /\ [][NextChunk]_vars

\* ------------------------------------------------- settings tab: the sizes

RECURSIVE DigitsValue(_)
\* the number written by a sequence of decimal digits
DigitsValue(text) ==
    IF text = <<>> THEN 0
    ELSE 10 * DigitsValue(SubSeq(text, 1, Len(text) - 1))
         + (CHOOSE n \in 0..9 : Digit(n) = text[Len(text)])

RECURSIVE LeadingDigits(_)
LeadingDigits(text) ==
    IF text # <<>> /\ \E n \in 0..9 : Digit(n) = Head(text)
    THEN <<Head(text)>> \o LeadingDigits(Tail(text))
    ELSE <<>>

\* parseInt(value) || fallback, for a text without sign or leading blanks:
\* NaN (no leading digit) and 0 are falsy
ParseIntOr(value, fallback) ==
    LET digits == LeadingDigits(value) IN
    IF digits = <<>> \/ DigitsValue(digits) = 0 THEN fallback
    ELSE DigitsValue(digits)

\* what the operator types into a size field
SizeTexts == {<<>>, <<"x">>} \cup {NumberToString(n) : n \in 0..MaxSize}

\* onChange of the "Chunk Size" field
SetChunkSize(value) ==
    /\ EventLoopFree
    /\ settings' = [settings EXCEPT !.chunkSize = ParseIntOr(value, DefaultChunkSize)]
    /\ settings' # settings
    /\ UNCHANGED <<listeners, endpoint, clear, probe, qdrantClient, vault, collection, collectionDim, store,
                   syncQueue, status, tasks, sync, search, raised, nOps, nFailures,
                   lastEv, clean>>

\* onChange of the "Overlap Size" field
SetOverlapSize(value) ==
    /\ EventLoopFree
    /\ settings' = [settings EXCEPT !.overlapSize = ParseIntOr(value, DefaultOverlapSize)]
    /\ settings' # settings
    /\ UNCHANGED <<listeners, endpoint, clear, probe, qdrantClient, vault, collection, collectionDim, store,
                   syncQueue, status, tasks, sync, search, raised, nOps, nFailures,
                   lastEv, clean>>

InitConfig ==
    /\ Init
    /\ settings.syncRules = DefaultSyncRules
    /\ vault = [p \in Paths |-> NoFile]

NextConfig ==
    \/ \E value \in SizeTexts : SetChunkSize(value)
    \/ \E value \in SizeTexts : SetOverlapSize(value)
    \/ \E p \in Paths, doc \in Documents : Create(p, doc)
    \/ \E p \in Paths, doc \in Documents : Modify(p, doc)
    \/ \E s \in Slots : IndexRead(s)
    \/ \E s \in Slots : IndexEmbed(s)
    \/ \E s \in Slots : IndexGetCollections(s)
    \/ \E s \in Slots : IndexCreateCollection(s)
    \/ \E s \in Slots : IndexUpsert(s)

SpecConfig == InitConfig /\ [][NextConfig]_vars

\* ------------------------------------------ indexFile: front matter keys

\* front matter of a.md: none, a "title" line, a "filePath: b.md" line, a
\* "fileName: z" line
PayloadFrontMatters ==
    {<<>>, << <<"title", "t">> >>, << <<"filePath", PathB>> >>,
     << <<"fileName", <<"z">> >> >>}

PayloadDocuments ==
    {[exists |-> TRUE, fm |-> fm, body |-> ProbeBody(n)] :
        fm \in PayloadFrontMatters, n \in 1..CfgChunkSize}

\* a.md, with or without front matter, is saved and deleted
InitPayload ==
    /\ settings = [enabled |-> TRUE, syncRules |-> DefaultSyncRules,
                   chunkSize |-> CfgChunkSize, overlapSize |-> CfgOverlapSize,
                   dimension |-> DefaultDimension]
    /\ qdrantClient = TRUE
    /\ vault \in {[q \in Paths |-> IF q = PathA THEN doc ELSE NoFile] :
                    doc \in PayloadDocuments}
    /\ collection \in {"absent", "present"}
    /\ collectionDim = IF collection = "present" THEN DefaultDimension ELSE 0
    /\ store = {}
    /\ syncQueue = {}
    /\ status = "ready"
    /\ tasks = [s \in Slots |-> IdleTask]
    /\ sync = [pc |-> "idle", files |-> <<>>, k |-> 0]
    /\ search = [pc |-> "idle", embedFailed |-> FALSE, result |-> "none"]
    /\ raised = FALSE
    /\ nOps = 0
    /\ nFailures = 0
    /\ lastEv = [p \in Paths |-> NoEvent]
    /\ clean = [p \in Paths |-> NoRuns]
    /\ clear = NoClear
    /\ probe = NoProbe
    /\ sessions = <<>>
    /\ clock = 0
    /\ requests = <<>>
    /\ serverEnabled = TRUE
    /\ httpServer = 1
    /\ servers = <<"listening">>
    /\ calls = <<>>
    /\ loadedTools = DefaultTools(settings.enabled) \cup {CustomTool}
    /\ toolFiles = 1
    /\ listeners = IF settings.enabled THEN 1 ELSE 0

NextPayload ==
    \/ \E doc \in PayloadDocuments : Modify(PathA, doc)
    \/ Delete(PathA)
    \/ \E s \in Slots : IndexRead(s)
    \/ \E s \in Slots : IndexEmbed(s)
    \/ \E s \in Slots : IndexGetCollections(s)
    \/ \E s \in Slots : IndexCreateCollection(s)
    \/ \E s \in Slots : IndexUpsert(s)
    \/ \E s \in Slots : RemoveSearch(s)
    \/ \E s \in Slots : RemoveDelete(s)

SpecPayload == InitPayload /\ [][NextPayload]_vars

\* ------------------------------------- the HTTP server and the tool registry

MaxCalls == 3
MaxToolFiles == 1

NoCall == [op |-> "none", pc |-> "done", h |-> 0, k |-> 0, value |-> FALSE]

\* the servers that hold the configured port
Listening(sv) == {h \in DOMAIN sv : sv[h] = "listening"}

\* no call of the plugin is waiting for anything
AllDone == \A c \in DOMAIN calls : calls[c].pc = "done"

\* onunload has run
Unloaded == \E c \in DOMAIN calls : calls[c].op = "unload"

\* the part of the state that startHTTPServer and loadToolsFromFolder write
World == [httpServer |-> httpServer, servers |-> servers, loadedTools |-> loadedTools]

\* startHTTPServer: http.createServer, this.httpServer = it, listen(port).
\* listen fails (the 'error' listener shows a notice) while another server of
\* the plugin holds the port.
StartHTTPServer(w) ==
    [w EXCEPT !.servers = Append(@, IF Listening(@) # {} THEN "failed" ELSE "listening"),
              !.httpServer = Len(w.servers) + 1]

\* httpServer.close(): the server stops listening
CloseServer(sv, h) ==
    IF h # 0 /\ sv[h] = "listening" THEN [sv EXCEPT ![h] = "closed"] ELSE sv

\* shutdownServer: the sessions are cleared, the server held is closed and
\* the handle is set to null
ShutdownServer(w) ==
    [w EXCEPT !.servers = CloseServer(@, w.httpServer), !.httpServer = 0]

\* loadToolsFromFolder up to its first await: both maps are cleared; with no
\* .js file in the folder nothing is awaited and createDefaultTools runs
BeginLoad(w, files) ==
    [w EXCEPT !.loadedTools = IF files = 0 THEN DefaultTools(settings.enabled) ELSE {}]

\* what the caller does once `await this.loadToolsFromFolder()` returns:
\* restartServer goes on with initializeMCPServer and startHTTPServer
AfterLoad(w, op) == IF op = "restart" THEN StartHTTPServer(w) ELSE w

\* the call cs[c] reaches its `await this.loadToolsFromFolder()`
RunLoad(cs, c, w, files) ==
    \E w1 \in {BeginLoad(w, files)} :
      \E w2 \in {IF files = 0 THEN AfterLoad(w1, cs[c].op) ELSE w1} :
        /\ httpServer' = w2.httpServer
        /\ servers' = w2.servers
        /\ loadedTools' = w2.loadedTools
        /\ calls' = [cs EXCEPT ![c] = IF files = 0 THEN [@ EXCEPT !.pc = "done"]
                                      ELSE [@ EXCEPT !.pc = "read", !.k = files]]

\* A .js file of the tools folder is created (delta 1), modified (0) or
\* deleted (-1): the listener of setupDirectoryMonitoring calls
\* reloadToolsQuietly.  With the server enabled it calls restartServer, which
\* runs up to the await in shutdownServerGracefully (the close callback, or
\* nothing when no server is held); otherwise it calls loadToolsFromFolder.
ToolFileEvent(delta) ==
    /\ EventLoopFree
    /\ Len(calls) < MaxCalls /\ ~Unloaded
    /\ toolFiles + delta \in 0..MaxToolFiles
    /\ delta = 0 => toolFiles > 0
    /\ toolFiles' = toolFiles + delta
    /\ IF serverEnabled
       THEN /\ sessions' = <<>>
            /\ IF httpServer # 0
               THEN /\ servers' = CloseServer(servers, httpServer)
                    /\ calls' = Append(calls, [NoCall EXCEPT !.op = "restart",
                                                !.pc = "closing", !.h = httpServer])
                    /\ UNCHANGED <<httpServer, loadedTools>>
               ELSE RunLoad(Append(calls, [NoCall EXCEPT !.op = "restart"]),
                            Len(calls) + 1, World, toolFiles')
       ELSE /\ RunLoad(Append(calls, [NoCall EXCEPT !.op = "reload"]),
                       Len(calls) + 1, World, toolFiles')
            /\ UNCHANGED sessions
    /\ UNCHANGED <<serverEnabled, clock, requests, pipeline, probe>>

\* the 'close' event of server h: every callback given to close() runs, sets
\* httpServer to null and starts its 100 ms timer
CloseEvent(h) ==
    /\ EventLoopFree
    /\ \E c \in DOMAIN calls : calls[c].pc = "closing" /\ calls[c].h = h
    /\ httpServer' = 0
    /\ calls' = [c \in DOMAIN calls |->
                    IF calls[c].pc = "closing" /\ calls[c].h = h
                    THEN [calls[c] EXCEPT !.pc = "timer"] ELSE calls[c]]
    /\ UNCHANGED <<serverEnabled, servers, loadedTools, toolFiles, sessions, clock,
                   requests, pipeline, probe>>

\* the timer of shutdownServerGracefully fires: restartServer goes on with
\* loadToolsFromFolder
TimerFires(c) ==
    /\ EventLoopFree
    /\ c \in DOMAIN calls /\ calls[c].pc = "timer"
    /\ RunLoad(calls, c, World, toolFiles)
    /\ UNCHANGED <<serverEnabled, toolFiles, sessions, clock, requests, pipeline, probe>>

\* loadToolFromFile has read one file and registered its tool; after the
\* last file createDefaultTools runs and the caller goes on
LoadRead(c) ==
    /\ EventLoopFree
    /\ c \in DOMAIN calls /\ calls[c].pc = "read"
    /\ \E w1 \in {[World EXCEPT !.loadedTools = @ \cup {CustomTool}]} :
         IF calls[c].k > 1
         THEN /\ loadedTools' = w1.loadedTools
              /\ calls' = [calls EXCEPT ![c] = [@ EXCEPT !.k = @ - 1]]
              /\ UNCHANGED <<httpServer, servers>>
         ELSE \E w2 \in {AfterLoad([w1 EXCEPT !.loadedTools =
                                        @ \cup DefaultTools(settings.enabled)],
                                   calls[c].op)} :
                /\ httpServer' = w2.httpServer
                /\ servers' = w2.servers
                /\ loadedTools' = w2.loadedTools
                /\ calls' = [calls EXCEPT ![c] = [@ EXCEPT !.pc = "done", !.k = 0]]
    /\ UNCHANGED <<serverEnabled, toolFiles, sessions, clock, requests, pipeline, probe>>

\* the Reload MCP Tools command with the server enabled
ReloadTools ==
    /\ EventLoopFree
    /\ Len(calls) < MaxCalls /\ ~Unloaded
    /\ serverEnabled
    /\ RunLoad(Append(calls, [NoCall EXCEPT !.op = "reload"]), Len(calls) + 1,
               World, toolFiles)
    /\ UNCHANGED <<serverEnabled, toolFiles, sessions, clock, requests, pipeline, probe>>

\* the Toggle MCP Server command up to `await this.saveSettings()`
ToggleMCPServer ==
    /\ EventLoopFree
    /\ Len(calls) < MaxCalls /\ ~Unloaded
    /\ serverEnabled' = ~serverEnabled
    /\ calls' = Append(calls, [NoCall EXCEPT !.op = "toggleCommand", !.pc = "save"])
    /\ UNCHANGED <<httpServer, servers, loadedTools, toolFiles, sessions, clock,
                   requests, pipeline, probe>>

\* onChange of the Enable MCP Server toggle up to `await saveSettings()`
SetServerEnabled(value) ==
    /\ EventLoopFree
    /\ Len(calls) < MaxCalls /\ ~Unloaded
    /\ value # serverEnabled
    /\ serverEnabled' = value
    /\ calls' = Append(calls, [NoCall EXCEPT !.op = "toggleTab", !.pc = "save",
                                !.value = value])
    /\ UNCHANGED <<httpServer, servers, loadedTools, toolFiles, sessions, clock,
                   requests, pipeline, probe>>

\* saveSettings has returned in a toggle of the MCP server.  The command
\* reads settings.enabled again and starts the server or shuts it down; the
\* settings tab uses the value it was given, and switched on it calls
\* initializeMCPServer only.
ServerToggleSaved(c) ==
    /\ EventLoopFree
    /\ c \in DOMAIN calls /\ calls[c].pc = "save"
    /\ calls[c].op \in {"toggleCommand", "toggleTab"}
    /\ \E w \in {IF calls[c].op = "toggleCommand"
                 THEN IF serverEnabled THEN StartHTTPServer(World)
                      ELSE ShutdownServer(World)
                 ELSE IF calls[c].value THEN World ELSE ShutdownServer(World)} :
        /\ httpServer' = w.httpServer
        /\ servers' = w.servers
    /\ sessions' = IF httpServer' = 0 /\ ~(calls[c].op = "toggleTab" /\ calls[c].value)
                   THEN <<>> ELSE sessions
    /\ calls' = [calls EXCEPT ![c] = [@ EXCEPT !.pc = "done"]]
    /\ UNCHANGED <<serverEnabled, loadedTools, toolFiles, clock, requests, pipeline, probe>>

\* onunload: shutdownServer
Unload ==
    /\ EventLoopFree
    /\ Len(calls) < MaxCalls /\ ~Unloaded
    /\ \E w \in {ShutdownServer(World)} :
        /\ httpServer' = w.httpServer
        /\ servers' = w.servers
    /\ sessions' = <<>>
    /\ calls' = Append(calls, [NoCall EXCEPT !.op = "unload"])
    /\ UNCHANGED <<serverEnabled, loadedTools, toolFiles, clock, requests, pipeline, probe>>

\* ------------------------------------------- the Enable Vector Sync toggle

RECURSIVE IndexCalls(_, _, _)
\* indexFile(file) called by each of n listeners in turn
IndexCalls(tk, path, n) ==
    IF n = 0 THEN tk ELSE IndexCalls(IndexCall(tk, path, TRUE, FALSE), path, n - 1)

RECURSIVE RemoveCalls(_, _, _)
\* removeFromIndex(file.path) called by each of n listeners in turn
RemoveCalls(tk, path, n) ==
    IF n = 0 THEN tk ELSE RemoveCalls(RemoveCall(tk, path), path, n - 1)

\* how many of the registered listeners of an event on the path call
\* indexFile or removeFromIndex: all of them when matchesSyncRules accepts
\* the file, none otherwise
Callers(path) == IF Tracked(path) = "true" THEN listeners ELSE 0

\* onChange of the Enable Vector Sync toggle up to `await saveSettings()`:
\* the setting is written
ToggleVectorSync(value) ==
    /\ EventLoopFree
    /\ Len(calls) < MaxCalls
    /\ value # settings.enabled
    /\ settings' = [settings EXCEPT !.enabled = value]
    /\ calls' = Append(calls, [NoCall EXCEPT !.op = "vectorToggle", !.pc = "save",
                                !.value = value])
    /\ UNCHANGED <<listeners, serverEnabled, httpServer, servers, loadedTools, toolFiles,
                   sessions, clock, requests, clear, probe, qdrantClient, vault,
                   collection, collectionDim, store, syncQueue, status, tasks, sync,
                   search, raised, nOps, nFailures, lastEv, clean>>

\* saveSettings has returned in the Enable Vector Sync toggle: switched on,
\* setupEventListeners registers the four listeners (again; switching off
\* unregisters nothing); then loadToolsFromFolder refreshes the tool list
VectorToggleSaved(c) ==
    /\ EventLoopFree
    /\ c \in DOMAIN calls /\ calls[c].pc = "save" /\ calls[c].op = "vectorToggle"
    /\ listeners' = IF calls[c].value /\ settings.enabled THEN listeners + 1 ELSE listeners
    /\ RunLoad(calls, c, World, toolFiles)
    /\ UNCHANGED <<serverEnabled, toolFiles, sessions, clock, requests, clear, probe,
                   settings, qdrantClient, vault, collection, collectionDim, store,
                   syncQueue, status, tasks, sync, search, raised, nOps, nFailures,
                   lastEv, clean>>

\* onChange of the Qdrant URL and API key fields, shown while vector sync
\* is enabled: initializeQdrantClient builds the client
SetQdrantUrl ==
    /\ EventLoopFree
    /\ settings.enabled
    /\ ~qdrantClient
    /\ qdrantClient' = TRUE
    /\ UNCHANGED <<listeners, endpoint, clear, probe, settings, vault, collection,
                   collectionDim, store, syncQueue, status, tasks, sync, search,
                   raised, nOps, nFailures, lastEv, clean>>

\* the host emits "modify": every registered modify listener runs
ModifyEvent(p, doc) ==
    /\ EventLoopFree /\ nOps < MaxOps
    /\ vault[p].exists
    /\ \E n \in {Callers(p)},
          tk \in {IF doc = vault[p] THEN tasks ELSE Disturb(tasks, {p})} :
        /\ Cardinality(FreeSlots(tasks)) >= n
        /\ tasks' = IndexCalls(tk, p, n)
        /\ syncQueue' = IF n > 0 THEN syncQueue \cup {p} ELSE syncQueue
        /\ status' = IF n > 0 THEN "syncing" ELSE status
    /\ vault' = [vault EXCEPT ![p] = doc]
    /\ nOps' = nOps + 1
    /\ lastEv' = [lastEv EXCEPT ![p] = [ev |-> "modify", other |-> <<>>]]
    /\ clean' = IF doc = vault[p] THEN clean ELSE [clean EXCEPT ![p] = NoRuns]
    /\ UNCHANGED <<listeners, endpoint, clear, probe, settings, qdrantClient, collection,
                   collectionDim, store, sync, search, raised, nFailures>>

\* the host emits "delete": every registered delete listener runs
DeleteEvent(p) ==
    /\ EventLoopFree /\ nOps < MaxOps
    /\ vault[p].exists
    /\ \E n \in {Callers(p)}, tk \in {Detach(tasks, p)} :
        /\ Cardinality(FreeSlots(tasks)) >= n
        /\ tasks' = IF n > 0 THEN RemoveCalls(tk, p, n) ELSE Disturb(tk, {p})
    /\ vault' = [vault EXCEPT ![p] = NoFile]
    /\ sync' = [sync EXCEPT !.files = DetachFiles(@, p)]
    /\ nOps' = nOps + 1
    /\ lastEv' = [lastEv EXCEPT ![p] = [ev |-> IF @.ev = "modify" THEN "deleteAfterModify" ELSE "delete",
                                             other |-> <<>>]]
    /\ clean' = [clean EXCEPT ![p] = NoRuns]
    /\ UNCHANGED <<listeners, endpoint, clear, probe, settings, qdrantClient, collection,
                   collectionDim, store, syncQueue, status, search, raised, nFailures>>

\* The plugin has loaded with vector sync enabled or disabled: the
\* constructor of VectorSyncManager builds the client, and onload registers
\* the listeners, only when it is enabled.  a.md is in the vault.
InitToggle ==
    /\ settings \in {[enabled |-> e, syncRules |-> DefaultSyncRules,
                      chunkSize |-> CfgChunkSize, overlapSize |-> CfgOverlapSize,
                      dimension |-> DefaultDimension]
                     : e \in BOOLEAN}
    /\ qdrantClient = settings.enabled
    /\ listeners = IF settings.enabled THEN 1 ELSE 0
    /\ vault = [q \in Paths |-> IF q = PathA THEN Document(1) ELSE NoFile]
    /\ collection = "absent"
    /\ collectionDim = 0
    /\ store = {}
    /\ syncQueue = {}
    /\ status = "ready"
    /\ tasks = [s \in Slots |-> IdleTask]
    /\ sync = [pc |-> "idle", files |-> <<>>, k |-> 0]
    /\ search = [pc |-> "idle", embedFailed |-> FALSE, result |-> "none"]
    /\ raised = FALSE
    /\ nOps = 0
    /\ nFailures = 0
    /\ lastEv = [p \in Paths |-> NoEvent]
    /\ clean = [p \in Paths |-> NoRuns]
    /\ clear = NoClear
    /\ probe = NoProbe
    /\ sessions = <<>>
    /\ clock = 0
    /\ requests = <<>>
    /\ serverEnabled = TRUE
    /\ httpServer = 1
    /\ servers = <<"listening">>
    /\ calls = <<>>
    /\ loadedTools = DefaultTools(settings.enabled) \cup {CustomTool}
    /\ toolFiles = 1

NextToggle ==
    \/ \E value \in BOOLEAN : ToggleVectorSync(value)
    \/ \E c \in 1..MaxCalls : VectorToggleSaved(c)
    \/ \E c \in 1..MaxCalls : LoadRead(c)
    \/ SetQdrantUrl
    \/ \E doc \in Documents : ModifyEvent(PathA, doc)
    \/ DeleteEvent(PathA)
    \/ \E s \in Slots : IndexRead(s)
    \/ \E s \in Slots : IndexEmbed(s)
    \/ \E s \in Slots : IndexGetCollections(s)
    \/ \E s \in Slots : IndexCreateCollection(s)
    \/ \E s \in Slots : IndexUpsert(s)
    \/ \E s \in Slots : RemoveSearch(s)
    \/ \E s \in Slots : RemoveDelete(s)

SpecToggle == InitToggle /\ [][NextToggle]_vars

\* ------------------------------------------------ the plugin after onload

\* onload has run to its end with the port free: the tools of the folder and
\* the default tools are loaded, and a server listens exactly when the MCP
\* server is enabled
InitServer ==
    /\ settings \in {[enabled |-> e, syncRules |-> DefaultSyncRules,
                      chunkSize |-> CfgChunkSize, overlapSize |-> CfgOverlapSize,
                      dimension |-> DefaultDimension]
                     : e \in BOOLEAN}
    /\ qdrantClient = settings.enabled
    /\ listeners = IF settings.enabled THEN 1 ELSE 0
    /\ vault = [q \in Paths |-> NoFile]
    /\ collection = "absent"
    /\ collectionDim = 0
    /\ store = {}
    /\ syncQueue = {}
    /\ status = "ready"
    /\ tasks = [s \in Slots |-> IdleTask]
    /\ sync = [pc |-> "idle", files |-> <<>>, k |-> 0]
    /\ search = [pc |-> "idle", embedFailed |-> FALSE, result |-> "none"]
    /\ raised = FALSE
    /\ nOps = 0
    /\ nFailures = 0
    /\ lastEv = [p \in Paths |-> NoEvent]
    /\ clean = [p \in Paths |-> NoRuns]
    /\ clear = NoClear
    /\ probe = NoProbe
    /\ sessions = <<>>
    /\ clock = 0
    /\ requests = <<>>
    /\ serverEnabled \in BOOLEAN
    /\ httpServer = IF serverEnabled THEN 1 ELSE 0
    /\ servers = IF serverEnabled THEN <<"listening">> ELSE <<>>
    /\ calls = <<>>
    /\ toolFiles \in 0..MaxToolFiles
    /\ loadedTools = DefaultTools(settings.enabled)
                        \cup (IF toolFiles > 0 THEN {CustomTool} ELSE {})

\* the two switches of the MCP server
NextEnable ==
    \/ ToggleMCPServer
    \/ \E value \in BOOLEAN : SetServerEnabled(value)
    \/ \E c \in 1..MaxCalls : ServerToggleSaved(c)

SpecEnable == InitServer /\ [][NextEnable]_vars

\* hot reloading: events on the .js files of the tools folder, and the
\* unloading of the plugin
NextRestart ==
    \/ \E delta \in {-1, 0, 1} : ToolFileEvent(delta)
    \/ \E h \in 1..(MaxCalls + 1) : CloseEvent(h)
    \/ \E c \in 1..MaxCalls : TimerFires(c)
    \/ \E c \in 1..MaxCalls : LoadRead(c)
    \/ Unload

SpecRestart == InitServer /\ [][NextRestart]_vars

\* everything that runs loadToolsFromFolder after startup
NextReload ==
    \/ ReloadTools
    \/ \E value \in BOOLEAN : ToggleVectorSync(value)
    \/ \E c \in 1..MaxCalls : VectorToggleSaved(c)
    \/ \E delta \in {-1, 0, 1} : ToolFileEvent(delta)
    \/ \E h \in 1..(MaxCalls + 1) : CloseEvent(h)
    \/ \E c \in 1..MaxCalls : TimerFires(c)
    \/ \E c \in 1..MaxCalls : LoadRead(c)

SpecReload == InitServer /\ [][NextReload]_vars

\* ------------------------------------------------- the /mcp endpoint

\* maxAge of cleanupSessions: one hour in milliseconds
MaxAge == 3600000

MaxRequests == 3
MaxTicks == 2
MaxRandom == 2

\* the time that passes between two steps of the endpoint
TickSizes == {MaxAge \div 2, MaxAge, MaxAge + 1}

\* what a POST to /mcp can carry: text that is not JSON; JSON that is not an
\* object (null, a number); a JSON-RPC response (no method); the three
\* methods; tools/call without params; a method that is not known
Bodies == {"malformed", "nonObject", "response", "initialize", "tools/list",
           "tools/call", "tools/call-noparams", "unknown"}

\* Math.random().toString(36).substr(2, 9) + Date.now().toString(36)
generateSessionId(random) == <<random, clock>>

\* the map with every session deleted whose lastActivity is more than maxAge
\* before now
cleanupSessions(map, now) ==
    [id \in {i \in DOMAIN map : ~(now - map[i] > MaxAge)} |-> map[id]]

\* get-or-create of handleMCPRequest: lastActivity of the session is now
Touch(map, sessionId, now) ==
    [id \in DOMAIN map \cup {sessionId} |-> IF id = sessionId THEN now ELSE map[id]]

\* handleMCPRequest up to its return or to `await this.callTool(...)`.
\* JSON.parse throwing, and `'method' in body` throwing on a body that is not
\* an object, leave through the outer catch, which returns the parse error.
HandleMCPRequest(body, random) ==
    /\ Len(requests) < MaxRequests
    /\ \E sessionId \in {generateSessionId(random)} :
         \E touched \in {Touch(sessions, sessionId, clock)} :
           IF body \in {"malformed", "nonObject"}
           THEN /\ sessions' = touched
                /\ requests' = Append(requests, [session |-> sessionId, pc |-> "done",
                                                 response |-> "parseError"])
           ELSE IF body = "tools/call"
           THEN /\ sessions' = touched
                /\ requests' = Append(requests, [session |-> sessionId, pc |-> "callTool",
                                                 response |-> "none"])
           ELSE /\ sessions' = cleanupSessions(touched, clock)
                /\ requests' = Append(requests,
                      [session |-> sessionId, pc |-> "done",
                       response |-> IF body = "response" THEN "null"
                                    ELSE IF body \in {"tools/call-noparams", "unknown"}
                                         THEN "internalError"
                                         ELSE "result"])
    /\ UNCHANGED <<clock, server, pipeline, probe>>

\* handleMCPRequest after `await this.callTool(...)`: the response is built,
\* cleanupSessions runs, the response is returned
CallToolReturns(k) ==
    /\ k \in DOMAIN requests
    /\ requests[k].pc = "callTool"
    /\ sessions' = cleanupSessions(sessions, clock)
    /\ requests' = [requests EXCEPT ![k] = [@ EXCEPT !.pc = "done", !.response = "result"]]
    /\ UNCHANGED <<clock, server, pipeline, probe>>

\* time passes
Tick(d) ==
    /\ clock + d <= MaxTicks * (MaxAge + 1)
    /\ clock' = clock + d
    /\ UNCHANGED <<sessions, requests, server, pipeline, probe>>

InitSessions ==
    /\ Init
    /\ settings.syncRules = DefaultSyncRules
    /\ vault = [p \in Paths |-> NoFile]

NextSessions ==
    \/ \E body \in Bodies, random \in 1..MaxRandom : HandleMCPRequest(body, random)
    \/ \E k \in 1..MaxRequests : CallToolReturns(k)
    \/ \E d \in TickSizes : Tick(d)

SpecSessions == InitSessions /\ [][NextSessions]_vars

\* ------------------------------------------------- direct calls: callTool

BuiltInTools == {"get-active-file", "create-note", "search-notes",
                 "get-vault-stats", "vector-search", "vector-sync-status"}

\* the built-in names, the name of a custom tool file, a name of no tool
ToolNames == BuiltInTools \cup {"my-tool", "missing-tool"}

\* what a custom tool does when called: it returns a value JSON.stringify
\* accepts, returns one it rejects (a cycle, a BigInt), throws an Error,
\* throws null or undefined, or throws another value (a string, a number)
CustomBehaviours == {"returns", "returnsCircular", "throwsError",
                     "throwsNullish", "throwsPlain"}

\* what a callTool call meets: arguments_ null or an object, with or without
\* a query; an active file or none; markdown files in the vault or none; the
\* host's vault.read / vault.create failing or not; vector sync enabled, the
\* manager constructed, searchSimilar meeting a backend failure (it returns
\* [] then); the custom tool loaded, and what it does
ToolEnvs ==
    [argumentsNull : BOOLEAN, hasQuery : BOOLEAN, activeFile : BOOLEAN,
     mdFiles : BOOLEAN, hostThrows : BOOLEAN, enabled : BOOLEAN,
     manager : BOOLEAN, searchFails : BOOLEAN, customLoaded : BOOLEAN,
     custom : CustomBehaviours]

\* how an async function ends: it returns a CallToolResult or throws a value
Returned(isError) == [kind |-> "return", isError |-> isError, thrown |-> "none"]
Thrown(value) == [kind |-> "throw", isError |-> FALSE, thrown |-> value]

\* a catch block that builds its result from `error.message`: reading a
\* property of null or undefined throws a TypeError
CatchBlock(error) ==
    IF error = "nullish" THEN Thrown("Error") ELSE Returned(TRUE)

getActiveFileContent(env) ==
    IF ~env.activeFile THEN Returned(TRUE)
    ELSE IF env.hostThrows THEN Thrown("Error")
    ELSE Returned(FALSE)

createNote(env) ==
    IF env.hostThrows THEN CatchBlock("Error") ELSE Returned(FALSE)

\* query.toLowerCase() is evaluated once per markdown file
searchNotes(env) ==
    IF env.mdFiles /\ ~env.hasQuery THEN Thrown("Error") ELSE Returned(FALSE)

getVaultStats(env) == Returned(FALSE)

\* searchSimilar catches its own failures and returns []
vectorSearch(env) ==
    IF ~env.enabled THEN Returned(TRUE)
    ELSE IF ~env.manager THEN Returned(TRUE)
    ELSE Returned(FALSE)

getVectorSyncStatus(env) ==
    IF ~env.manager THEN Returned(TRUE) ELSE Returned(FALSE)

\* executeCustomTool without its try/catch
executeCustomToolNoCatch(name, env) ==
    IF ~(name = "my-tool" /\ env.customLoaded) THEN Returned(TRUE)
    ELSE IF env.custom = "returns" THEN Returned(FALSE)
    ELSE IF env.custom = "returnsCircular" THEN Thrown("Error")
    ELSE IF env.custom = "throwsError" THEN Thrown("Error")
    ELSE IF env.custom = "throwsNullish" THEN Thrown("nullish")
    ELSE Thrown("plain")

executeCustomTool(name, env) ==
    IF ~(name = "my-tool" /\ env.customLoaded) THEN Returned(TRUE)
    ELSE IF env.custom = "returns" THEN Returned(FALSE)
    ELSE IF env.custom = "returnsCircular" THEN CatchBlock("Error")
    ELSE IF env.custom = "throwsError" THEN CatchBlock("Error")
    ELSE IF env.custom = "throwsNullish" THEN CatchBlock("nullish")
    ELSE CatchBlock("plain")

\* the switch of callTool; reading arguments_.title, .query of null throws
ToolSwitch(name, env) ==
    IF name = "get-active-file" THEN getActiveFileContent(env)
    ELSE IF name = "get-vault-stats" THEN getVaultStats(env)
    ELSE IF name = "vector-sync-status" THEN getVectorSyncStatus(env)
    ELSE IF name \in BuiltInTools /\ env.argumentsNull THEN Thrown("Error")
    ELSE IF name = "create-note" THEN createNote(env)
    ELSE IF name = "search-notes" THEN searchNotes(env)
    ELSE IF name = "vector-search" THEN vectorSearch(env)
    ELSE executeCustomTool(name, env)

callTool(name, env) ==
    LET tried == ToolSwitch(name, env)
    IN  IF tried.kind = "throw" THEN CatchBlock(tried.thrown) ELSE tried

\* callTool(name, arguments_) called once
CallCallTool(name, env) ==
    /\ probe.op = "none"
    /\ probe' = [op |-> "callTool", input |-> [name |-> name, env |-> env],
                 result |-> callTool(name, env)]
    /\ UNCHANGED <<endpoint, pipeline>>

NextTools ==
    \/ probe.op = "none" /\ \E name \in ToolNames, env \in ToolEnvs :
          CallCallTool(name, env)

SpecTools == InitRules /\ [][NextTools]_vars

\* ------------------------------------------- the collection: ensure, clear

\* onChange of the "Vector Dimension" field
SetDimension(value) ==
    /\ EventLoopFree
    /\ settings' = [settings EXCEPT !.dimension = ParseIntOr(value, DefaultDimension)]
    /\ settings' # settings
    /\ UNCHANGED <<listeners, endpoint, clear, probe, qdrantClient, vault, collection, collectionDim, store,
                   syncQueue, status, tasks, sync, search, raised, nOps, nFailures,
                   lastEv, clean>>

\* the "Clear All Vectors" button, confirmed (it is disabled while a clear
\* runs): clearAllVectors throws at once without a client, else it asks the
\* store to delete the collection
ClearStart ==
    /\ EventLoopFree /\ nOps < MaxOps
    /\ clear.pc = "idle"
    /\ clear' = IF qdrantClient
                THEN [pc |-> "deleteCollection", result |-> "none", progress |-> <<>>]
                ELSE [pc |-> "idle", result |-> "error", progress |-> <<>>]
    /\ nOps' = nOps + 1
    /\ UNCHANGED <<listeners, endpoint, probe, settings, qdrantClient, vault, collection, collectionDim, store,
                   syncQueue, status, tasks, sync, search, raised, nFailures, lastEv, clean>>

\* deleteCollection returns or fails; the failure is logged and thrown again.
\* For a collection that does not exist the store answers either way.
ClearDeleteCollection ==
    /\ EventLoopFree
    /\ clear.pc = "deleteCollection"
    /\ \E ok \in BOOLEAN :
        /\ IF collection = "present" THEN Outcome(ok, TRUE)
           ELSE nFailures' = nFailures
        /\ collection' = IF ok THEN "absent" ELSE collection
        /\ collectionDim' = IF ok THEN 0 ELSE collectionDim
        /\ store' = IF ok THEN {} ELSE store
        /\ clean' = IF ok THEN [p \in Paths |-> NoRuns] ELSE clean
        /\ tasks' = IF ok THEN Disturb(tasks, Paths) ELSE tasks
        /\ clear' = IF ok THEN [clear EXCEPT !.pc = "getCollections"]
                    ELSE [pc |-> "idle", result |-> "error", progress |-> <<>>]
    /\ UNCHANGED <<listeners, endpoint, probe, settings, qdrantClient, vault, syncQueue, status, sync, search,
                   raised, nOps, lastEv>>

\* the end of clearAllVectors after ensureCollection has returned
ClearReturn ==
    /\ status' = "ready"
    /\ clear' = [pc |-> "idle", result |-> "ok", progress |-> <<0, 0>>]

\* ensureCollection inside clearAllVectors: getCollections returns or fails
\* (logged, not thrown)
ClearGetCollections ==
    /\ EventLoopFree
    /\ clear.pc = "getCollections"
    /\ \E ok \in BOOLEAN :
        /\ Outcome(ok, TRUE)
        /\ IF ok /\ collection = "absent"
           THEN clear' = [clear EXCEPT !.pc = "createCollection"] /\ UNCHANGED status
           ELSE ClearReturn
    /\ UNCHANGED <<listeners, endpoint, probe, settings, qdrantClient, vault, collection, collectionDim, store,
                   syncQueue, tasks, sync, search, raised, nOps, lastEv, clean>>

\* ensureCollection inside clearAllVectors: createCollection returns or
\* fails (logged, not thrown)
ClearCreateCollection ==
    /\ EventLoopFree
    /\ clear.pc = "createCollection"
    /\ \E ok \in BOOLEAN :
        /\ Outcome(ok, collection = "absent")
        /\ collection' = IF ok THEN "present" ELSE collection
        /\ collectionDim' = IF ok THEN settings.dimension ELSE collectionDim
        /\ ClearReturn
    /\ UNCHANGED <<listeners, endpoint, probe, settings, qdrantClient, vault, store, syncQueue, tasks, sync,
                   search, raised, nOps, lastEv, clean>>

\* The plugin has loaded with the default rules and an empty vault; the
\* store has no collection, or one left by an earlier session: made with the
\* default dimension or with another one, empty or holding a file's points.
InitCollection ==
    /\ settings = [enabled |-> TRUE, syncRules |-> DefaultSyncRules,
                   chunkSize |-> CfgChunkSize, overlapSize |-> CfgOverlapSize,
                   dimension |-> DefaultDimension]
    /\ qdrantClient = TRUE
    /\ vault = [p \in Paths |-> NoFile]
    /\ \/ collection = "absent" /\ collectionDim = 0 /\ store = {}
       \/ /\ collection = "present"
          /\ collectionDim \in {1, DefaultDimension}
          /\ store \in {{}, IndexedPoints(PathB, 1)}
    /\ syncQueue = {}
    /\ status = "ready"
    /\ tasks = [s \in Slots |-> IdleTask]
    /\ sync = [pc |-> "idle", files |-> <<>>, k |-> 0]
    /\ search = [pc |-> "idle", embedFailed |-> FALSE, result |-> "none"]
    /\ raised = FALSE
    /\ nOps = 0
    /\ nFailures = 0
    /\ lastEv = [p \in Paths |-> NoEvent]
    /\ clean = [p \in Paths |-> NoRuns]
    /\ clear = NoClear
    /\ probe = NoProbe
    /\ sessions = <<>>
    /\ clock = 0
    /\ requests = <<>>
    /\ serverEnabled = TRUE
    /\ httpServer = 1
    /\ servers = <<"listening">>
    /\ calls = <<>>
    /\ loadedTools = DefaultTools(settings.enabled) \cup {CustomTool}
    /\ toolFiles = 1
    /\ listeners = IF settings.enabled THEN 1 ELSE 0

NextCollection ==
    \/ \E value \in SizeTexts : SetDimension(value)
    \/ \E doc \in Documents : Create(PathA, doc)
    \/ \E s \in Slots : IndexRead(s)
    \/ \E s \in Slots : IndexEmbed(s)
    \/ \E s \in Slots : IndexGetCollections(s)
    \/ \E s \in Slots : IndexCreateCollection(s)
    \/ \E s \in Slots : IndexUpsert(s)
    \/ ClearStart
    \/ ClearDeleteCollection
    \/ ClearGetCollections
    \/ ClearCreateCollection

SpecCollection == InitCollection /\ [][NextCollection]_vars

\* ------------------------------------------------------------------ claims

\* the chunks of the file now at the path, as indexFile would cut them
CurrentChunks(p) ==
    chunkContent(vault[p], p, settings.chunkSize, settings.overlapSize)

\* the (chunkIndex, vector) pairs of a sequence of chunks
ChunkPairs(chunks) ==
    {<<chunks[k].index, Embed(chunks[k].text)>> : k \in DOMAIN chunks}

\* the (chunkIndex, vector) pairs of the points stored for a path
StoredPairs(p) ==
    {<<r.payload.chunkIndex, r.vector>> : r \in PointsOfFile(store, p)}

\* C1: once the indexFile run started by a modify event of a tracked file
\* has finished undisturbed (no call failed, no other call on the path
\* overlapped it, no later event on the path), the points stored for the path
\* are exactly the chunks of the file's current content.
C1_ModifyLeavesCurrentChunks ==
    \A p \in Paths :
        (lastEv[p].ev = "modify" /\ Tracked(p) = "true" /\ clean[p].n >= 1)
            => StoredPairs(p) = ChunkPairs(CurrentChunks(p))

\* C2: when a removeFromIndex call returns and no store call has failed, no
\* point with the call's path as payload.filePath is left, however many
\* there were.
C2_RemoveLeavesNothing ==
    [][\A s \in Slots :
          (tasks[s].kind = "remove" /\ tasks'[s].kind = "idle" /\ nFailures' = 0)
              => PointsOfFile(store', tasks[s].path) = {}]_vars

\* C3: a second complete indexFile run on an unchanged file, neither run
\* meeting a failed call or another call on the path, leaves the ids and
\* vectors of the file's points exactly as the first run left them.
C3_IndexFileIdempotent ==
    \A p \in Paths : clean[p].n = 2 => clean[p].last = clean[p].first

\* C3 witness: a file with points has been indexed twice over in that way
C3_Witness ==
    \E p \in Paths : clean[p].n = 2 /\ clean[p].first # {} /\ vault[p].exists

\* C4: once the removeFromIndex and the indexFile of a rename from p to a
\* tracked q are over, with no call failed and no other call on p or q in
\* flight, no point is stored for p and q has as many points as its content
\* has chunks.
C4_RenameMovesPoints ==
    \A p, q \in Paths :
        (/\ lastEv[p] = [ev |-> "renamedFrom", other |-> q]
         /\ lastEv[q] = [ev |-> "renamedTo", other |-> p]
         /\ ~Busy(tasks, p) /\ ~Busy(tasks, q)
         /\ nFailures = 0)
            => /\ PointsOfFile(store, p) = {}
               /\ Cardinality(PointsOfFile(store, q)) = Len(CurrentChunks(q))

\* C5: after a tracked file at p, with no call on it in flight, was renamed
\* to a path the rules do not track, and with no call failed and none in
\* flight on p since, no point is stored for p.
C5_RenameAwayRemovesPoints ==
    \A p \in Paths :
        (/\ lastEv[p].ev = "renamedAway" /\ Tracked(p) = "true"
         /\ ~Busy(tasks, p) /\ nFailures = 0)
            => PointsOfFile(store, p) = {}

\* C6: after a modify event and then a delete event of the same path, once
\* no call on the path is in flight and with no call failed, no point is
\* stored for the path.
C6_DeleteAfterModifyWins ==
    \A p \in Paths :
        (lastEv[p].ev = "deleteAfterModify" /\ ~Busy(tasks, p) /\ nFailures = 0)
            => PointsOfFile(store, p) = {}

\* C7: a searchSimilar call whose query embedding failed has returned an
\* error, not an empty list.
C7_SearchReportsEmbeddingFailure ==
    search.embedFailed => search.result = "error"

\* C8: the status an indexFile run publishes when it ends is "error" if the
\* embedding of one of its chunks failed.
C8_PartialIndexPublishesError ==
    [][\A s \in Slots :
          (/\ tasks[s].kind = "index" /\ tasks'[s].kind = "idle"
           /\ \/ tasks[s].embedFailed
              \/ tasks[s].pc = "embed" /\ nFailures' # nFailures)
              => status' = "error"]_vars

\* C9: while the published status is "ready", no indexFile run is in
\* progress.
C9_ReadyMeansNoIndexing ==
    status = "ready" => \A s \in Slots : tasks[s].kind # "index"

\* C10: no listener of a vault event throws to the host.
C10_ListenersNeverThrow ==
    raised = FALSE

\* a glob that new RegExp cannot compile
Malformed(pattern) == ~ParseRegex(GlobToRegex(pattern)).ok

\* a rule list with every malformed pattern taken as one that never matches:
\* dropped from the exclude lists, its pattern rule switched off
WithoutMalformed(rules) ==
    [k \in DOMAIN rules |->
        [rules[k] EXCEPT
            !.enabled = @ /\ ~(rules[k].type = "pattern" /\ Malformed(rules[k].pattern)),
            !.exclude = SelectSeq(@, LAMBDA x : ~Malformed(x))]]

\* C11: a matchesSyncRules call never raises, whatever patterns the rules
\* hold, and returns what it returns when the malformed patterns match
\* nothing.
C11_MalformedGlobNeverRaises ==
    probe.op = "matchesSyncRules" =>
        /\ probe.result # "throw"
        /\ probe.result = matchesSyncRules(probe.input.enabled,
                                           WithoutMalformed(probe.input.rules),
                                           probe.input.path)

RECURSIVE GlobMatches(_, _)
\* the matching C12 states: "**" any characters, "*" any characters but "/",
\* "?" one character, any other character itself
GlobMatches(pattern, s) ==
    IF pattern = <<>> THEN s = <<>>
    ELSE IF StartsWith(pattern, <<"*", "*">>)
    THEN \E k \in 0..Len(s) :
            GlobMatches(SubSeq(pattern, 3, Len(pattern)), SubSeq(s, k + 1, Len(s)))
    ELSE IF Head(pattern) = "*"
    THEN \E k \in 0..Len(s) :
            /\ \A j \in 1..k : s[j] # "/"
            /\ GlobMatches(Tail(pattern), SubSeq(s, k + 1, Len(s)))
    ELSE IF Head(pattern) = "?"
    THEN s # <<>> /\ GlobMatches(Tail(pattern), Tail(s))
    ELSE s # <<>> /\ Head(s) = Head(pattern) /\ GlobMatches(Tail(pattern), Tail(s))

\* C12: matchesPattern returns true exactly for the paths the stated glob
\* semantics accept.
C12_GlobSemantics ==
    probe.op = "matchesPattern" =>
        ((probe.result = "true") <=> GlobMatches(probe.input.pattern, probe.input.path))

\* C13: under the default rules a file is tracked exactly when its extension
\* is "md" and it is not under templates/ or archive/, at whatever depth.
C13_DefaultRulesSkipFolders ==
    (/\ probe.op = "matchesSyncRules" /\ probe.input.enabled
     /\ probe.input.rules = DefaultSyncRules)
        => ((probe.result = "true") <=>
                /\ Extension(probe.input.path) = <<"m", "d">>
                /\ ~StartsWith(probe.input.path, SubSeq(GlobTemplates, 1, 10))
                /\ ~StartsWith(probe.input.path, SubSeq(GlobArchive, 1, 8)))

\* the rule is enabled, matches the path, and none of its exclude patterns does
Qualifies(path, rule) ==
    /\ rule.enabled
    /\ evaluateRule(path, rule) = "true"
    /\ \A j \in DOMAIN rule.exclude : matchesPattern(path, rule.exclude[j]) # "true"

C16_ExtensionEqualsPattern ==
    (probe.op = "evaluateRule" /\ probe.input.rule.type = "extension")
        => ((probe.result = "true") <=>
                Extension(probe.input.path) = probe.input.rule.pattern)

\* C16 amended: a pattern without "." matches exactly the files whose
\* extension equals it character for character, and a pattern "." + e (e
\* without ".") matches exactly the files whose extension equals e.
C16_ExtensionEqualsPatternSansDot ==
    (probe.op = "evaluateRule" /\ probe.input.rule.type = "extension")
        => LET p == probe.input.rule.pattern
               ext == Extension(probe.input.path)
               dotless(x) == \A k \in DOMAIN x : x[k] # "."
           IN  /\ dotless(p) => ((probe.result = "true") <=> ext = p)
               /\ (p # <<>> /\ Head(p) = "." /\ dotless(Tail(p)))
                      => ((probe.result = "true") <=> ext = Tail(p))

\* C16 witness: the pattern ".md" has matched a file with extension "md",
\* or the pattern "md" has been refused by a file with extension "MD"
C16_Witness ==
    /\ probe.op = "evaluateRule" /\ probe.input.rule.type = "extension"
    /\ \/ /\ probe.input.rule.pattern = <<".", "m", "d">>
          /\ probe.input.path = NotesA /\ probe.result = "true"
       \/ /\ probe.input.rule.pattern = <<"m", "d">>
          /\ probe.input.path = NotesUpper /\ probe.result = "false"

\* C17: for 0 <= overlapSize < chunkSize a chunkContent call on a body of L
\* characters returns the least n with n * (chunkSize - overlapSize) >= L
\* chunks, none for an empty body; the 2500-character body cut with sizes
\* 1000 and 200 gives 4 chunks, the last one shorter than 1000.
C17_ChunkCount ==
    (probe.op = "chunkContent" /\ 0 <= probe.input.overlapSize
     /\ probe.input.overlapSize < probe.input.chunkSize)
        => LET L == Len(probe.input.content.body)
               step == probe.input.chunkSize - probe.input.overlapSize
               n == Len(probe.result)
           IN  /\ n * step >= L
               /\ n > 0 => (n - 1) * step < L
               /\ L = 0 => n = 0
               /\ (L = 2500 /\ probe.input.chunkSize = 1000 /\ probe.input.overlapSize = 200)
                      => (n = 4 /\ Len(probe.result[4].text) < 1000)

\* C17 witness: the worked example has been chunked, and so has a body whose
\* length is no multiple of the step
C17_Witness ==
    /\ probe.op = "chunkContent"
    /\ Len(probe.input.content.body) = 2500
    /\ probe.input.chunkSize = 1000 /\ probe.input.overlapSize = 200
    /\ Len(probe.result) = 4
    /\ Len(probe.result[4].text) = 100

\* C18: no chunkContent call runs with overlapSize >= chunkSize on a body it
\* cannot finish: such sizes never come into force, so every call returns.
C18_ChunkerTerminates ==
    \A s \in Slots : tasks[s].pc # "chunkContent"

\* the step in which the ensureCollection call of an indexFile run returns
\* to upsertToQdrant
EnsureReturns(s) ==
    /\ tasks[s].kind = "index"
    /\ tasks[s].pc \in {"getCollections", "createCollection"}
    /\ tasks'[s].pc = "upsert"

\* C19: when an ensureCollection call returns to its caller the collection
\* exists with the dimension of the settings: an absent collection has been
\* created, a collection that existed has been left as it was, and a
\* collection of another dimension has made the call fail instead.
C19_EnsureCollection ==
    [][\A s \in Slots :
          EnsureReturns(s) =>
              /\ collection' = "present"
              /\ collectionDim' = settings.dimension
              /\ (collection = "present") =>
                     (collectionDim' = collectionDim /\ store' = store)]_vars

\* C20: in the step where clearAllVectors returns without error the
\* collection exists with the dimension of the settings and holds no point,
\* and the status published is "ready" with counts 0 of 0.
C20_ClearLeavesEmptyCollection ==
    [][(clear.pc # "idle" /\ clear'.pc = "idle" /\ clear'.result = "ok") =>
          /\ collection' = "present"
          /\ collectionDim' = settings'.dimension
          /\ store' = {}
          /\ status' = "ready"
          /\ clear'.progress = <<0, 0>>]_vars

\* C23: for 0 <= overlapSize < chunkSize the k-th chunk (from 0) is the text
\* of the body from offset k * (chunkSize - overlapSize), chunkSize
\* characters long or up to the body's end; every position of the body lies
\* in some chunk; a chunk of full length ends with the overlapSize
\* characters its successor begins with.
C23_ChunkWindows ==
    (probe.op = "chunkContent" /\ 0 <= probe.input.overlapSize
     /\ probe.input.overlapSize < probe.input.chunkSize)
        => LET body == probe.input.content.body
               L == Len(body)
               C == probe.input.chunkSize
               O == probe.input.overlapSize
               n == Len(probe.result)
               start(k) == (k - 1) * (C - O)
               end(k) == IF start(k) + C < L THEN start(k) + C ELSE L
           IN  /\ \A k \in 1..n :
                     /\ start(k) < L
                     /\ probe.result[k].text = SubSeq(body, start(k) + 1, end(k))
               /\ \A j \in 1..L : \E k \in 1..n : start(k) < j /\ j <= end(k)
               /\ \A k \in 1..(n - 1) :
                     Len(probe.result[k].text) = C =>
                        SubSeq(probe.result[k].text, C - O + 1, C)
                            = SubSeq(probe.result[k + 1].text, 1, O)

\* C23 witness: a body cut with a positive overlap into three chunks or
\* more, the last one short
C23_Witness ==
    /\ probe.op = "chunkContent"
    /\ probe.input.overlapSize > 0
    /\ Len(probe.input.content.body) <= MaxBody
    /\ Len(probe.result) >= 3
    /\ Len(probe.result[Len(probe.result)].text) < probe.input.chunkSize

\* C24: for 0 <= overlapSize < chunkSize the chunks returned carry the
\* indexes 0, 1, ..., n - 1 in their order, and the totalChunks of every
\* chunk's metadata is n, the number of chunks returned.
C24_IndexesAndTotal ==
    (probe.op = "chunkContent" /\ 0 <= probe.input.overlapSize
     /\ probe.input.overlapSize < probe.input.chunkSize)
        => \A k \in 1..Len(probe.result) :
              /\ probe.result[k].index = k - 1
              /\ probe.result[k].metadata.totalChunks = Len(probe.result)

\* C24 witness: three chunks or more of a document whose front matter has a
\* totalChunks line of its own
C24_Witness ==
    /\ probe.op = "chunkContent"
    /\ probe.input.content.fm = << <<"totalChunks", "9">> >>
    /\ Len(probe.result) >= 3
    /\ probe.result[3].index = 2

C26_QueuedPathsLeave ==
    /\ \A p \in Paths : (p \in syncQueue) ~> (p \notin syncQueue)
    /\ []((\A s \in Slots : tasks[s].kind # "index") => syncQueue = {})

\* the step in which vault.read throws inside an indexFile call and its
\* catch block runs
ReadThrows(s) ==
    /\ tasks[s].kind = "index" /\ tasks[s].pc = "read"
    /\ tasks'[s].kind = "idle"
    /\ nFailures' # nFailures \/ ~vault[tasks[s].path].exists

\* C27: when the read of an indexFile call throws, the path the call added
\* to syncQueue is taken out, "error" is published and the store is left as
\* it is.
C27_CatchRemovesPath ==
    [][\A s \in Slots :
          ReadThrows(s) =>
              /\ tasks[s].added \notin syncQueue'
              /\ status' = "error"
              /\ store' = store]_vars

\* C29: when syncEntireVault returns, with no file to sync or after its last
\* file, and no indexFile call is in flight, the status is not "syncing".
C29_SyncLeavesNoSyncing ==
    [][(/\ SyncStart(<<>>) \/ (SyncResume /\ sync'.pc = "idle")
        /\ \A s \in Slots : tasks'[s].kind # "index")
          => status' # "syncing"]_vars

\* C25: no step of an indexFile call takes a point out of the store, and
\* when a call ends in which the embedding of one chunk failed and nothing
\* else did, every other chunk of the file has its point in the store.
C25_PartialFailureKeepsPoints ==
    [][/\ \A r \in store : \E q \in store' : q.id = r.id
       /\ \A s \in Slots :
            (/\ tasks[s].kind = "index" /\ tasks'[s].kind = "idle"
             /\ nFailures' = 1
             /\ \/ tasks[s].embedFailed
                \/ tasks[s].pc = "embed" /\ nFailures' # nFailures)
                => Cardinality(PointsOfFile(store', tasks[s].path))
                      >= Len(tasks[s].chunks) - 1]_vars

\* C25 witness: the embedding of the second of three chunks has failed and
\* the call has ended with the points of the first and the third
C25_Witness ==
    /\ \A s \in Slots : tasks[s].kind = "idle"
    /\ nFailures = 1 /\ nOps = 1
    /\ {r.id : r \in store} = {RecordId(PathA, 0), RecordId(PathA, 2)}

\* an indexFile call made by syncEntireVault for the path starts in this step
SyncCalls(path) ==
    \E s \in Slots :
        /\ tasks[s].kind = "idle"
        /\ tasks'[s].kind = "index" /\ tasks'[s].bySync /\ tasks'[s].added = path

\* C28: syncEntireVault lists exactly the files that matchesSyncRules
\* accepts when it is called, each once, and calls indexFile for the first;
\* each time a call it awaits has ended, however it ended, it calls indexFile
\* for the next file of the list or returns after the last; never are two of
\* its indexFile calls in flight.
C28_SyncIndexesEachTrackedFile ==
    /\ [][(\E files \in AllOrders : SyncStart(files)) =>
            LET wanted == {p \in Paths : vault[p].exists /\ Tracked(p) = "true"}
            IN  wanted # {} =>
                   /\ sync'.pc = "await"
                   /\ Len(sync'.files) = Cardinality(wanted)
                   /\ {sync'.files[k].path : k \in DOMAIN sync'.files} = wanted
                   /\ SyncCalls(sync'.files[1].path)]_vars
    /\ [][sync.pc = "resume" =>
            IF sync.k < Len(sync.files)
            THEN sync'.k = sync.k + 1 /\ sync'.files = sync.files
                 /\ SyncCalls(sync.files[sync.k + 1].path)
            ELSE sync'.pc = "idle" /\ tasks' = tasks]_vars
    /\ [](Cardinality({s \in Slots : tasks[s].kind = "index" /\ tasks[s].bySync}) <= 1)

\* handleMCPRequest call number k returns in this step
Returns(k) ==
    /\ k \in DOMAIN requests' /\ requests'[k].pc = "done"
    /\ k \notin DOMAIN requests \/ requests[k].pc # "done"

\* C21: when a handleMCPRequest call returns, no session of the map has a
\* lastActivity more than one hour before now; and no step removes a session
\* whose lastActivity is at most one hour before now.
C21_SessionsExpireAfterOneHour ==
    [][/\ (\E k \in 1..MaxRequests : Returns(k)) =>
             \A id \in DOMAIN sessions' : clock' - sessions'[id] <= MaxAge
       /\ \A id \in DOMAIN sessions :
             clock - sessions[id] <= MaxAge => id \in DOMAIN sessions']_vars

\* the name is neither a built-in tool nor a loaded custom tool
ToolNotFound(name, env) ==
    name \notin BuiltInTools /\ ~(name = "my-tool" /\ env.customLoaded)

\* the tool's function, or the evaluation of its arguments, throws
ToolThrew(name, env) ==
    \/ name \in {"create-note", "search-notes", "vector-search"} /\ env.argumentsNull
    \/ name = "get-active-file" /\ env.activeFile /\ env.hostThrows
    \/ name = "create-note" /\ env.hostThrows
    \/ name = "search-notes" /\ env.mdFiles /\ ~env.hasQuery
    \/ name = "my-tool" /\ env.customLoaded /\ env.custom # "returns"

\* C22: every callTool call returns a result, and the result has isError
\* whenever no tool of that name exists or the tool threw.
C22_CallToolNeverRaises ==
    probe.op = "callTool" =>
        /\ probe.result.kind = "return"
        /\ ToolNotFound(probe.input.name, probe.input.env)
             \/ ToolThrew(probe.input.name, probe.input.env)
               => probe.result.isError

\* C22 witness: a loaded custom tool that throws null has been called
C22_Witness ==
    /\ probe.op = "callTool"
    /\ probe.input.name = "my-tool"
    /\ probe.input.env.customLoaded
    /\ probe.input.env.custom = "throwsNullish"
    /\ probe.result = Returned(TRUE)

\* C31: the record an indexFile call upserts carries the path of the call's
\* file as payload.filePath, the file's base name as payload.fileName and the
\* chunk's index as payload.chunkIndex, so that the search of delete-by-file
\* on that path returns it.
C31_PayloadKeepsStructuralKeys ==
    [][\A s \in Slots :
          (/\ tasks[s].kind = "index" /\ tasks[s].pc = "upsert"
           /\ tasks'[s] # tasks[s] /\ tasks[s].record \in store')
            => /\ tasks[s].record.payload.filePath = tasks[s].path
               /\ tasks[s].record.payload.fileName = BaseName(tasks[s].path)
               /\ tasks[s].record.payload.chunkIndex = tasks[s].chunks[tasks[s].i].index
               /\ tasks[s].record \in PointsOfFile(store', tasks[s].path)]_vars

\* an upsert of the indexFile call in slot s, or a delete of the
\* removeFromIndex call in slot s, reaches the store in this step
WritesStore(s) ==
    /\ tasks'[s] # tasks[s]
    /\ store' # store
    /\ \/ tasks[s].kind = "index" /\ tasks[s].pc = "upsert"
       \/ tasks[s].kind = "remove" /\ tasks[s].pc = "delete"

\* C32: a store write of indexFile(f) or removeFromIndex(f) leaves, for every
\* path g other than f, the records with payload.filePath = g as they were,
\* ids, vectors and payloads.
C32_OtherFilesUntouched ==
    [][\A s \in Slots : WritesStore(s) =>
          \A g \in Paths \ {tasks[s].path, tasks[s].added} :
              PointsOfFile(store', g) = PointsOfFile(store, g)]_vars

\* C33: every record of the store has a payload.filePath that
\* matchesSyncRules accepts under the rules in force.
C33_OnlyTrackedPathsStored ==
    \A r \in store : Tracked(r.payload.filePath) = "true"

\* C34: while vector sync is enabled and an indexFile or removeFromIndex
\* call is in flight, the Qdrant client is set.
C34_ClientSetWhenEnabled ==
    (settings.enabled /\ \E s \in Slots : tasks[s].kind # "idle") => qdrantClient

\* the calls that start in this step
Started(kind) ==
    {s \in Slots : tasks[s].kind = "idle" /\ tasks'[s].kind = kind}

\* C35: once every toggle of vector sync has run to its end, a modify event
\* on a file the rules accept starts exactly one indexFile call, and a delete
\* event on such a file starts exactly one removeFromIndex call (which is in
\* flight when the client is set).
C35_OneCallPerEvent ==
    [][(\A c \in DOMAIN calls : calls[c].pc # "save") =>
         /\ \A doc \in Documents :
              (ModifyEvent(PathA, doc) /\ Tracked(PathA) = "true")
                 => Cardinality(Started("index")) = 1
         /\ (DeleteEvent(PathA) /\ Tracked(PathA) = "true" /\ qdrantClient)
                 => Cardinality(Started("remove")) = 1]_vars

\* the plugin holds a server and that server is the one listening on the port
HoldsListening == httpServer # 0 /\ Listening(servers) = {httpServer}

\* C38: once every toggle of the MCP server (the command or the settings
\* tab) has run to its end, settings.enabled is true exactly when the plugin
\* holds an HTTP server that is listening.
C38_EnabledIffServerHeld ==
    AllDone => (serverEnabled <=> HoldsListening)

\* C36: with the server enabled, once every restart started by a tool-file
\* event has run to its end, exactly one server listens on the port and the
\* plugin's handle refers to it; an unload after that leaves no server
\* listening.
C36_OneServerAfterRestarts ==
    [][/\ (AllDone' /\ serverEnabled' /\ ~Unloaded') => HoldsListening'
       /\ (AllDone /\ Unload) => Listening(servers') = {}]_vars

\* C37: while a server of the plugin is listening, the tool list that
\* tools/list returns holds the four core tools, and, when no toggle of vector
\* sync is under way, the two vector tools exactly when vector sync is
\* enabled.
C37_BuiltInToolsListed ==
    Listening(servers) # {} =>
        /\ CoreTools \subseteq loadedTools
        /\ (\A c \in DOMAIN calls : calls[c].op = "vectorToggle" => calls[c].pc = "done")
              => (settings.enabled <=> VectorTools \subseteq loadedTools)

====
